---- MODULE Spec2Model ----
(***************************************************************************)
(* Model of topgrade's Linux support (src/steps/os/linux.rs) and of the    *)
(* PowerShell step (src/steps/powershell.rs).                              *)
(*                                                                         *)
(* Part 1: the distribution resolver (Distribution::detect,                *)
(*         Distribution::parse_os_release, match_fedora_variant).          *)
(* Part 2: the upgrade procedures and steps, as sequences of invocations   *)
(*         built through the run-type executor.                            *)
(*                                                                         *)
(* Strings.  A string is a sequence of lexemes; a lexeme stands for a      *)
(* fixed run of characters ("suse", "open", " ").  Two strings are equal   *)
(* iff their lexeme sequences are equal, str::contains is the contiguous   *)
(* sub-sequence test and split_whitespace cuts at whitespace lexemes, so   *)
(* "opensuse" = <<"open","suse">> contains "suse" without being equal to   *)
(* it.  An Option is a set with at most one element.                       *)
(***************************************************************************)
EXTENDS Integers, Sequences, FiniteSets, TLC

VARIABLES
    bedrock,     \* whether the path /bedrock exists
    osFile,      \* /etc/os-release: "absent", "unreadable" or "present"
    section,     \* general section of /etc/os-release, the four keys read
    detected,    \* "pending", or what Distribution::detect() returned
    probes,      \* file system accesses detect() has made
    proc,        \* "idle", or the entry point being run
    ctx,         \* the ExecutionContext: run type, sudo, config flags
    facts,       \* what the probes of the host and of the config answer
    strata,      \* the lines `brl list` prints on this host
    wstatus,     \* the lines `waydroid status` prints on this host
    pc,          \* index of the next step of the entry point's plan
    trace,       \* the invocations made so far, in order
    outcome      \* "none", "running", or what the entry point returned

rvars == <<bedrock, osFile, section, detected, probes>>
pvars == <<proc, ctx, facts, strata, wstatus, pc, trace, outcome>>
vars == <<bedrock, osFile, section, detected, probes,
          proc, ctx, facts, strata, wstatus, pc, trace, outcome>>

(***************************************************************************)
(* Options and strings                                                     *)
(***************************************************************************)
None == {}
Some(x) == {x}
Unwrap(o) == CHOOSE x \in o : TRUE

\* a string made of one lexeme
L(x) == <<x>>

Whitespace == {" ", "\t"}

\* str::contains: pat occurs in s as a contiguous run
StrContains(s, pat) ==
    \E i \in 0..(Len(s) - Len(pat)) : SubSeq(s, i + 1, i + Len(pat)) = pat

RECURSIVE SplitFrom(_, _, _, _)
SplitFrom(s, i, cur, acc) ==
    IF i > Len(s)
    THEN IF cur = <<>> THEN acc ELSE Append(acc, cur)
    ELSE IF s[i] \in Whitespace
         THEN SplitFrom(s, i + 1, <<>>, IF cur = <<>> THEN acc ELSE Append(acc, cur))
         ELSE SplitFrom(s, i + 1, Append(cur, s[i]), acc)

\* str::split_whitespace().collect(): the non-empty maximal runs between
\* whitespace, in order
SplitWhitespace(s) == SplitFrom(s, 1, <<>>, <<>>)

\* <[&str]>::contains
VecContains(v, tok) == \E i \in 1..Len(v) : v[i] = tok

(***************************************************************************)
(* Part 1.  Distribution resolver                                          *)
(***************************************************************************)
Distribution ==
    {"Alpine", "Wolfi", "Arch", "Bedrock", "CentOS", "Chimera", "ClearLinux",
     "Fedora", "FedoraImmutable", "Debian", "Gentoo", "NILRT", "OpenMandriva",
     "OpenSuseTumbleweed", "PCLinuxOS", "Suse", "SuseMicro", "Vanilla", "Void",
     "Solus", "Exherbo", "NixOS", "KDENeon", "Nobara"}

\* TopgradeError values returned by the resolver, and the error of
\* Ini::load_from_file propagated by `?`
UnknownLinuxDistribution == "UnknownLinuxDistribution"
EmptyOSReleaseFile == "EmptyOSReleaseFile"
IniLoadError == "IniLoadError"

\* the identifiers spelled out in the source
OpensuseMicroos == <<"open", "suse", "-", "microos">>
Archlinux == <<"arch", "linux">>
Tumbleweed == L("tumbleweed")
Vanilla == L("Vanilla")
IotEdition == <<"IoT", " ", "Edition">>
SwayAtomic == <<"Sway", " ", "Atomic">>

ImmutableVariants ==
    {L("Silverblue"), L("Kinoite"), L("Sericea"), L("Onyx"), IotEdition,
     SwayAtomic, L("CoreOS")}

\* a plausible slip: one atomic spin left out of the list
MatchFedoraVariant_NoCoreOS(variant) ==
    IF variant # None /\ Unwrap(variant) \in (ImmutableVariants \ {L("CoreOS")})
    THEN "FedoraImmutable"
    ELSE "Fedora"

MatchFedoraVariant(variant) ==
    IF variant # None /\ Unwrap(variant) \in ImmutableVariants
    THEN "FedoraImmutable"
    ELSE "Fedora"

\* a plausible slip: the tumbleweed marker looked up by equality
SuseVariant_Equality(id) ==
    LET id_variant == IF id = None THEN <<>> ELSE Unwrap(id)
    IN  IF id_variant = Tumbleweed THEN "OpenSuseTumbleweed" ELSE "Suse"

\* the suse arm of the ID_LIKE chain: id.unwrap_or_default().contains(..)
SuseVariant(id) ==
    LET id_variant == IF id = None THEN <<>> ELSE Unwrap(id)
    IN  IF StrContains(id_variant, Tumbleweed) THEN "OpenSuseTumbleweed" ELSE "Suse"

\* a plausible slip: ID_LIKE tested by substring on its tokens
IdLikeHas_Substring(id_like, tok) ==
    \E i \in 1..Len(id_like) : StrContains(id_like[i], tok)

\* id_like.contains(&"tok") on the token vector
IdLikeHas(id_like, tok) == VecContains(id_like, tok)

\* a plausible slip: the fedora test moved ahead of the centos test
IdLikeChain_FedoraFirst(id, variant, id_like) ==
    IF IdLikeHas(id_like, L("debian")) \/ IdLikeHas(id_like, L("ubuntu"))
    THEN "Debian"
    ELSE IF IdLikeHas(id_like, L("fedora")) THEN MatchFedoraVariant(variant)
    ELSE IF IdLikeHas(id_like, L("centos")) THEN "CentOS"
    ELSE IF IdLikeHas(id_like, L("suse")) THEN SuseVariant(id)
    ELSE IF IdLikeHas(id_like, L("arch")) \/ IdLikeHas(id_like, Archlinux)
    THEN "Arch"
    ELSE IF IdLikeHas(id_like, L("alpine")) THEN "Alpine"
    ELSE UnknownLinuxDistribution

\* a plausible slip: an unmatched ID_LIKE falls back to a default variant
IdLikeChain_Default(id, variant, id_like) ==
    IF IdLikeHas(id_like, L("debian")) \/ IdLikeHas(id_like, L("ubuntu"))
    THEN "Debian"
    ELSE IF IdLikeHas(id_like, L("centos")) THEN "CentOS"
    ELSE IF IdLikeHas(id_like, L("suse")) THEN SuseVariant(id)
    ELSE IF IdLikeHas(id_like, L("arch")) \/ IdLikeHas(id_like, Archlinux)
    THEN "Arch"
    ELSE IF IdLikeHas(id_like, L("alpine")) THEN "Alpine"
    ELSE IF IdLikeHas(id_like, L("fedora")) THEN MatchFedoraVariant(variant)
    ELSE "Debian"

\* the if / else-if chain over the ID_LIKE tokens; falling off its end
\* reaches the final Err
IdLikeChain(id, variant, id_like) ==
    IF IdLikeHas(id_like, L("debian")) \/ IdLikeHas(id_like, L("ubuntu"))
    THEN "Debian"
    ELSE IF IdLikeHas(id_like, L("centos")) THEN "CentOS"
    ELSE IF IdLikeHas(id_like, L("suse")) THEN SuseVariant(id)
    ELSE IF IdLikeHas(id_like, L("arch")) \/ IdLikeHas(id_like, Archlinux)
    THEN "Arch"
    ELSE IF IdLikeHas(id_like, L("alpine")) THEN "Alpine"
    ELSE IF IdLikeHas(id_like, L("fedora")) THEN MatchFedoraVariant(variant)
    ELSE UnknownLinuxDistribution

\* the `_ =>` arm of the match on ID
ParseFallback(id, name, variant, id_like) ==
    IF name # None /\ StrContains(Unwrap(name), Vanilla)
    THEN "Vanilla"
    ELSE IF id_like # None
         THEN IdLikeChain(id, variant, Unwrap(id_like))
         ELSE UnknownLinuxDistribution

\* a plausible slip: the NAME and ID_LIKE fallbacks tried before the table
ParseOsRelease_FallbackFirst(sec) ==
    LET fb == ParseFallback(sec.ID, sec.NAME, sec.VARIANT,
                            IF sec.ID_LIKE = None THEN None
                            ELSE Some(SplitWhitespace(Unwrap(sec.ID_LIKE))))
    IN  IF fb # UnknownLinuxDistribution THEN fb
        ELSE IF sec.ID = Some(L("debian")) THEN "Debian"
        ELSE IF sec.ID = Some(L("fedora")) THEN MatchFedoraVariant(sec.VARIANT)
        ELSE IF sec.ID = Some(L("arch")) THEN "Arch"
        ELSE UnknownLinuxDistribution

ParseOsRelease(sec) ==
    LET id == sec.ID
        name == sec.NAME
        variant == sec.VARIANT
        id_like == IF sec.ID_LIKE = None THEN None
                   ELSE Some(SplitWhitespace(Unwrap(sec.ID_LIKE)))
    IN  CASE id = Some(L("alpine")) -> "Alpine"
          [] id = Some(L("chimera")) -> "Chimera"
          [] id = Some(L("wolfi")) -> "Wolfi"
          [] id \in {Some(L("centos")), Some(L("rhel")), Some(L("ol"))} -> "CentOS"
          [] id = Some(L("clear-linux-os")) -> "ClearLinux"
          [] id = Some(L("fedora")) -> MatchFedoraVariant(variant)
          [] id = Some(L("nilrt")) -> "NILRT"
          [] id = Some(L("nobara")) -> "Nobara"
          [] id = Some(L("void")) -> "Void"
          [] id \in {Some(L("debian")), Some(L("pureos")), Some(L("Deepin")),
                     Some(L("linuxmint"))} -> "Debian"
          [] id \in {Some(L("arch")), Some(L("manjaro-arm")), Some(L("garuda")),
                     Some(L("artix")), Some(L("cachyos"))} -> "Arch"
          [] id = Some(L("solus")) -> "Solus"
          [] id \in {Some(L("gentoo")), Some(L("funtoo"))} -> "Gentoo"
          [] id = Some(L("exherbo")) -> "Exherbo"
          [] id = Some(L("nixos")) -> "NixOS"
          [] id = Some(OpensuseMicroos) -> "SuseMicro"
          [] id = Some(L("neon")) -> "KDENeon"
          [] id = Some(L("openmandriva")) -> "OpenMandriva"
          [] id = Some(L("pclinuxos")) -> "PCLinuxOS"
          [] OTHER -> ParseFallback(id, name, variant, id_like)

\* Ini::general_section().is_empty(): the section holds no key at all
SectionIsEmpty(sec) ==
    sec.ID = None /\ sec.NAME = None /\ sec.VARIANT = None /\ sec.ID_LIKE = None

BedrockPath == "/bedrock"
OS_RELEASE_PATH == "/etc/os-release"
ProbeExists(path) == <<"exists", path>>
ProbeLoad(path) == <<"load", path>>

\* a plausible slip: the identification file inspected before the marker
Detect_FileFirst(b, f, sec) ==
    IF f = "present" /\ ~SectionIsEmpty(sec)
    THEN [result |-> ParseOsRelease(sec),
          probes |-> {ProbeExists(OS_RELEASE_PATH), ProbeLoad(OS_RELEASE_PATH)}]
    ELSE IF b
    THEN [result |-> "Bedrock",
          probes |-> {ProbeExists(OS_RELEASE_PATH), ProbeExists(BedrockPath)}]
    ELSE [result |-> EmptyOSReleaseFile,
          probes |-> {ProbeExists(OS_RELEASE_PATH), ProbeExists(BedrockPath)}]

\* a plausible slip: a missing or empty file resolved to a default variant
Detect_DefaultVariant(b, f, sec) ==
    IF b
    THEN [result |-> "Bedrock", probes |-> {ProbeExists(BedrockPath)}]
    ELSE IF f = "absent"
    THEN [result |-> "Debian",
          probes |-> {ProbeExists(BedrockPath), ProbeExists(OS_RELEASE_PATH)}]
    ELSE IF f = "unreadable"
    THEN [result |-> IniLoadError,
          probes |-> {ProbeExists(BedrockPath), ProbeExists(OS_RELEASE_PATH),
                      ProbeLoad(OS_RELEASE_PATH)}]
    ELSE [result |-> ParseOsRelease(sec),
          probes |-> {ProbeExists(BedrockPath), ProbeExists(OS_RELEASE_PATH),
                      ProbeLoad(OS_RELEASE_PATH)}]

\* Distribution::detect() on a host where /bedrock exists iff b, the
\* identification file is in state f and, when it loads, has general
\* section sec: what it returns and the file system accesses it makes
Detect(b, f, sec) ==
    IF b
    THEN [result |-> "Bedrock", probes |-> {ProbeExists(BedrockPath)}]
    ELSE IF f = "absent"
    THEN [result |-> EmptyOSReleaseFile,
          probes |-> {ProbeExists(BedrockPath), ProbeExists(OS_RELEASE_PATH)}]
    ELSE IF f = "unreadable"
    THEN [result |-> IniLoadError,
          probes |-> {ProbeExists(BedrockPath), ProbeExists(OS_RELEASE_PATH),
                      ProbeLoad(OS_RELEASE_PATH)}]
    ELSE IF SectionIsEmpty(sec)
    THEN [result |-> EmptyOSReleaseFile,
          probes |-> {ProbeExists(BedrockPath), ProbeExists(OS_RELEASE_PATH),
                      ProbeLoad(OS_RELEASE_PATH)}]
    ELSE [result |-> ParseOsRelease(sec),
          probes |-> {ProbeExists(BedrockPath), ProbeExists(OS_RELEASE_PATH),
                      ProbeLoad(OS_RELEASE_PATH)}]

(***************************************************************************)
(* Part 2.  Command execution and the upgrade procedures                   *)
(*                                                                         *)
(* A procedure is the sequence of steps its code goes through on a given   *)
(* context c (run type, sudo, config flags) and host f (the set of probes  *)
(* that answer yes).  The steps are taken one at a time; the first step    *)
(* that fails ends the procedure, as `?` does.                             *)
(*   require  a capability or policy test that returns Err when it fails   *)
(*   exec     ctx.run_type().execute(..) run with status_checked*,         *)
(*            output_checked or output_checked_utf8                        *)
(*   spawn    std::process::Command::new(..) run directly                  *)
(*   build    an executor command that is built and dropped without a run  *)
(*   prompt   prompt_yesno                                                 *)
(*   panic    an unwrap() of None or a panic!()                            *)
(*   call     a procedure of another module                                *)
(***************************************************************************)
Step0 ==
    [kind |-> "", fn |-> "", ok |-> TRUE, err |-> "", sudo |-> FALSE,
     argv |-> <<>>, codes |-> {}, capture |-> "no", lenient |-> FALSE,
     left |-> 0]

\* outcomes of an entry point besides "Ok"
SudoRequired == "SudoRequired"     \* require_option(ctx.sudo(), ..) on None
MissingTool == "MissingTool"       \* require(..) / PathExt::require on absence
SkipStep == "SkipStep"             \* Err(SkipStep(..))
ExecFailed == "ExecFailed"         \* a checked invocation reported failure
Panicked == "Panicked"             \* the thread panicked
CalleeFailed == "CalleeFailed"     \* a procedure of another module failed

Require(fn, ok, err) == [Step0 EXCEPT !.kind = "require", !.fn = fn, !.ok = ok, !.err = err]
RequireSudo(fn, c) == Require(fn, c.sudo, SudoRequired)
RequireTool(fn, f, tool) == Require(fn, tool \in f, MissingTool)
Exec(fn, argv) ==
    [Step0 EXCEPT !.kind = "exec", !.fn = fn, !.argv = argv, !.err = ExecFailed]
Sudo(fn, argv) ==
    [Step0 EXCEPT !.kind = "exec", !.fn = fn, !.sudo = TRUE, !.argv = argv, !.err = ExecFailed]
WithCodes(step, codes) == [step EXCEPT !.codes = codes]
\* output_checked keeps the bytes, output_checked_utf8 decodes them
Captured(step) == [step EXCEPT !.capture = "bytes"]
CapturedUtf8(step) == [step EXCEPT !.capture = "utf8"]
SpawnCmd(fn, argv) ==
    [Step0 EXCEPT !.kind = "spawn", !.fn = fn, !.argv = argv, !.capture = "utf8",
                  !.err = ExecFailed]
OnFailure(step, err) == [step EXCEPT !.err = err]
\* a Result turned into an Option or a bool: the failure is not propagated
Lenient(step) == [step EXCEPT !.lenient = TRUE]
Build(fn, sudo, argv) == [Step0 EXCEPT !.kind = "build", !.fn = fn, !.sudo = sudo, !.argv = argv]
Prompt(fn) == [Step0 EXCEPT !.kind = "prompt", !.fn = fn]
Panic(fn) == [Step0 EXCEPT !.kind = "panic", !.fn = fn]
Call(fn) == [Step0 EXCEPT !.kind = "call", !.fn = fn]

\* `if cond { v.push(x) }` and friends
If(cond, xs) == IF cond THEN xs ELSE <<>>

\* args.split_whitespace() of an optional free-form config string: the
\* string, when set, is taken to hold the one token named here
ExtraArgs(f, key) == If(key \in f, << "<" \o key \o ">" >>)

\* CommandExt::status_checked / status_checked_with_codes: success is exit
\* code 0 or one of the extra codes given at the call site
StatusOk(exit, codes) == exit = 0 \/ exit \in codes


W(tool) == "which:" \o tool
Yes(c, flag) == If(c.yes, <<flag>>)

\* an ExecutionContext: ctx.run_type() is dry or not, ctx.sudo() is Some or
\* None, ctx.config().yes(step) for the step asked about, ctx.config().cleanup()
Contexts == [dry : BOOLEAN, sudo : BOOLEAN, yes : BOOLEAN, cleanup : BOOLEAN]

UpgradeApk(fn, c, f) ==
    << RequireTool(fn, f, W("apk")), RequireSudo(fn, c),
       Sudo(fn, <<"apk", "update">>), Sudo(fn, <<"apk", "upgrade">>) >>

UpgradeAlpineLinux(c, f) == UpgradeApk("upgrade_alpine_linux", c, f)
UpgradeChimeraLinux(c, f) == UpgradeApk("upgrade_chimera_linux", c, f)
UpgradeWolfiLinux(c, f) == UpgradeApk("upgrade_wolfi_linux", c, f)

\* a plausible slip: rpm-ostree looked at before bootc
UpgradeRedhat_OstreeFirst(c, f) ==
    LET fn == "upgrade_redhat" IN
    IF W("rpm-ostree") \in f /\ "cfg:rpm_ostree" \in f
    THEN << Exec(fn, <<"rpm-ostree", "upgrade">>) >>
    ELSE IF W("bootc") \in f /\ "cfg:bootc" \in f
    THEN << RequireSudo(fn, c), Sudo(fn, <<"bootc", "upgrade">>) >>
    ELSE << RequireSudo(fn, c),
            Sudo(fn, << IF W("dnf") \in f THEN "dnf" ELSE "yum",
                        IF "cfg:redhat_distro_sync" \in f THEN "distro-sync" ELSE "upgrade" >>
                     \o ExtraArgs(f, "cfg:dnf_arguments") \o Yes(c, "-y")) >>

UpgradeRedhat(c, f) ==
    LET fn == "upgrade_redhat" IN
    IF W("bootc") \in f /\ "cfg:bootc" \in f
    THEN << RequireSudo(fn, c), Sudo(fn, <<"bootc", "upgrade">>) >>
    ELSE IF W("rpm-ostree") \in f /\ "cfg:rpm_ostree" \in f
    THEN << Exec(fn, <<"rpm-ostree", "upgrade">>) >>
    ELSE << RequireSudo(fn, c),
            Sudo(fn, << IF W("dnf") \in f THEN "dnf" ELSE "yum",
                        IF "cfg:redhat_distro_sync" \in f THEN "distro-sync" ELSE "upgrade" >>
                     \o ExtraArgs(f, "cfg:dnf_arguments") \o Yes(c, "-y")) >>

UpgradeNobara(c, f) ==
    LET fn == "upgrade_nobara" IN
    << RequireSudo(fn, c), RequireTool(fn, f, W("dnf")),
       Sudo(fn, <<"dnf">> \o Yes(c, "-y")
                \o <<"update", "rpmfusion-nonfree-release", "rpmfusion-free-release",
                     "fedora-repos", "nobara-repos", "--refresh">>),
       Sudo(fn, <<"dnf">> \o Yes(c, "-y") \o <<"distro-sync">>) >>

UpgradeNilrt(c, f) ==
    LET fn == "upgrade_nilrt" IN
    << RequireSudo(fn, c), RequireTool(fn, f, W("opkg")),
       Sudo(fn, <<"opkg", "update">>), Sudo(fn, <<"opkg", "upgrade">>) >>

UpgradeFedoraImmutable(c, f) ==
    LET fn == "upgrade_fedora_immutable" IN
    IF W("bootc") \in f /\ "cfg:bootc" \in f
    THEN << RequireSudo(fn, c), Sudo(fn, <<"bootc", "upgrade">>) >>
    ELSE << RequireTool(fn, f, W("rpm-ostree")), Exec(fn, <<"rpm-ostree", "upgrade">>) >>

UpgradeBedrockStrata(c, f) ==
    LET fn == "upgrade_bedrock_strata" IN
    << RequireSudo(fn, c), Sudo(fn, <<"brl", "update">>) >>

UpgradeSuse(c, f) ==
    LET fn == "upgrade_suse" IN
    << RequireSudo(fn, c), Sudo(fn, <<"zypper", "refresh">>),
       Sudo(fn, <<"zypper", IF "cfg:suse_dup" \in f THEN "dist-upgrade" ELSE "update">>
                \o Yes(c, "-y")) >>

UpgradeOpensuseTumbleweed(c, f) ==
    LET fn == "upgrade_opensuse_tumbleweed" IN
    << RequireSudo(fn, c), Sudo(fn, <<"zypper", "refresh">>),
       Sudo(fn, <<"zypper", "dist-upgrade">> \o Yes(c, "-y")) >>

UpgradeSuseMicro(c, f) ==
    LET fn == "upgrade_suse_micro" IN
    << RequireSudo(fn, c),
       Sudo(fn, <<"transactional-update">> \o Yes(c, "-n") \o <<"dup">>) >>

UpgradeOpenmandriva(c, f) ==
    LET fn == "upgrade_openmandriva" IN
    << RequireSudo(fn, c) >>
    \o (IF W("dnf") \notin f THEN << Panic(fn) >>
        ELSE << Sudo(fn, <<"dnf", "upgrade">> \o ExtraArgs(f, "cfg:dnf_arguments")
                         \o Yes(c, "-y")) >>)

UpgradePclinuxos(c, f) ==
    LET fn == "upgrade_pclinuxos" IN
    << RequireSudo(fn, c) >>
    \o (IF W("apt-get") \notin f THEN << Panic(fn) >>
        ELSE << Sudo(fn, <<"apt-get", "update">> \o ExtraArgs(f, "cfg:dnf_arguments")
                         \o Yes(c, "-y")),
                Sudo(fn, <<"apt-get", "dist-upgrade">> \o Yes(c, "-y")) >>)

\* the second command is `upgrade`, yet "upgrade", "--all" are pushed onto
\* `update`, which has already run
UpgradeVanilla(c, f) ==
    LET fn == "upgrade_vanilla" IN
    << RequireTool(fn, f, W("apx")),
       Exec(fn, <<"apx", "update", "--all">> \o Yes(c, "-y")),
       Exec(fn, <<"apx">> \o Yes(c, "-y")) >>

UpgradeVoid(c, f) ==
    LET fn == "upgrade_void" IN
    << RequireSudo(fn, c),
       Sudo(fn, <<"xbps-install", "-Su", "xbps">> \o Yes(c, "-y")),
       Sudo(fn, <<"xbps-install", "-u">> \o Yes(c, "-y")) >>

UpgradeGentoo(c, f) ==
    LET fn == "upgrade_gentoo" IN
    << RequireSudo(fn, c) >>
    \o If(W("layman") \in f, << Sudo(fn, <<"layman", "-s", "ALL">>) >>)
    \o (IF W("ego") \in f
        THEN << Sudo(fn, <<"ego", "sync">>) >>
        ELSE << Sudo(fn, <<"emerge", "--sync">>
                         \o (IF "cfg:emerge_sync_flags" \in f
                             THEN ExtraArgs(f, "cfg:emerge_sync_flags") ELSE <<"-q">>)) >>)
    \o If(W("eix-update") \in f, << Sudo(fn, <<"eix-update">>) >>)
    \o << Sudo(fn, <<"emerge">>
                   \o (IF "cfg:emerge_update_flags" \in f
                       THEN ExtraArgs(f, "cfg:emerge_update_flags")
                       ELSE <<"-uDNa", "--with-bdeps=y", "world">>)) >>

\* the apt front-end upgrade_debian picks
\* a plausible slip: nala looked for before mist
DebianApt_NalaFirst(f) ==
    IF W("apt-fast") \in f THEN "apt-fast"
    ELSE IF "path:/usr/bin/nala" \in f THEN "/usr/bin/nala"
    ELSE IF W("mist") \in f THEN "mist"
    ELSE "apt-get"

DebianApt(f) ==
    IF W("apt-fast") \in f THEN "apt-fast"
    ELSE IF W("mist") \in f THEN "mist"
    ELSE IF "path:/usr/bin/nala" \in f THEN "/usr/bin/nala"
    ELSE "apt-get"

\* the exit codes given to status_checked_with_codes for `apt update`
AptUpdateCodes == {0, 100}

\* a plausible slip: `apt update` run with plain status_checked
AptUpdateStep_Plain(fn, apt) == Sudo(fn, <<apt, "update">>)

AptUpdateStep(fn, apt) == WithCodes(Sudo(fn, <<apt, "update">>), AptUpdateCodes)

UpgradeDebian(c, f) ==
    LET fn == "upgrade_debian"
        apt == DebianApt(f)
        is_mist == apt = "mist"
        is_nala == apt = "/usr/bin/nala"
    IN  IF is_mist
        THEN << Exec(fn, <<apt, "update">>), Exec(fn, <<apt, "upgrade">>) >>
        ELSE << RequireSudo(fn, c) >>
             \o If(~is_nala, << AptUpdateStep(fn, apt) >>)
             \o << Sudo(fn, <<apt, IF is_nala THEN "upgrade" ELSE "dist-upgrade">>
                            \o Yes(c, "-y") \o ExtraArgs(f, "cfg:apt_arguments")) >>
             \o If(c.cleanup,
                   << Sudo(fn, <<apt, "clean">>),
                      Sudo(fn, <<apt, "autoremove">> \o Yes(c, "-y")) >>)

RunDebGet(c, f) ==
    LET fn == "run_deb_get" IN
    << RequireTool(fn, f, W("deb-get")),
       Exec(fn, <<"deb-get", "update">>), Exec(fn, <<"deb-get", "upgrade">>) >>
    \o If(c.cleanup, << Captured(Exec(fn, <<"deb-get", "clean">>)) >>)

UpgradeSolus(c, f) ==
    LET fn == "upgrade_solus" IN
    << RequireSudo(fn, c), Sudo(fn, <<"eopkg">> \o Yes(c, "-y") \o <<"upgrade">>) >>

RunAm(c, f) ==
    LET fn == "run_am" IN
    << RequireTool(fn, f, W("am")), Exec(fn, <<"am", IF c.yes THEN "-U" ELSE "-u">>) >>

RunAppman(c, f) ==
    LET fn == "run_appman" IN
    << RequireTool(fn, f, W("appman")), Exec(fn, <<"appman", "-u">>) >>

\* `pacdef version` goes through the executor, so a dry run sees no output
RunPacdef(c, f) ==
    LET fn == "run_pacdef"
        new_version == ~c.dry /\ "pacdef:version1" \in f
    IN  << RequireTool(fn, f, W("pacdef")),
           CapturedUtf8(Exec(fn, <<"pacdef", "version">>)) >>
        \o (IF new_version
            THEN << Exec(fn, <<"pacdef", "package", "sync">> \o Yes(c, "--noconfirm")),
                    Exec(fn, <<"pacdef", "package", "review">>) >>
            ELSE << Exec(fn, <<"pacdef", "sync">> \o Yes(c, "--noconfirm")),
                    Exec(fn, <<"pacdef", "review">>) >>)

RunPacstall(c, f) ==
    LET fn == "run_pacstall" IN
    << RequireTool(fn, f, W("pacstall")),
       Exec(fn, <<"pacstall">> \o Yes(c, "-P") \o <<"-U">>),
       Exec(fn, <<"pacstall">> \o Yes(c, "-P") \o <<"-Up">>) >>

RunPackerNu(c, f) ==
    LET fn == "run_packer_nu" IN
    << RequireTool(fn, f, W("nu")),
       RequireTool(fn, f, "path:~/.local/share/nushell/packer"),
       Exec(fn, <<"nu", "-c", "use ~/.local/share/nushell/packer/start/packer.nu/api_layer/packer.nu; packer update">>) >>

UpgradeClearlinux(c, f) ==
    LET fn == "upgrade_clearlinux" IN
    << RequireSudo(fn, c), Sudo(fn, <<"swupd", "update">> \o Yes(c, "--assume=yes")) >>

UpgradeExherbo(c, f) ==
    LET fn == "upgrade_exherbo" IN
    << RequireSudo(fn, c),
       Sudo(fn, <<"cave", "sync">>),
       Sudo(fn, <<"cave", "resolve", "world", "-c1", "-Cs", "-km", "-Km", "-x">>) >>
    \o If(c.cleanup, << Sudo(fn, <<"cave", "purge", "-x">>) >>)
    \o << Sudo(fn, <<"cave", "fix-linkage", "-x", "--", "-Cs">>),
          Sudo(fn, <<"eclectic", "config", "interactive">>) >>

\* a plausible slip: the garbage collection not gated by the cleanup flag
UpgradeNixos_AlwaysCollect(c, f) ==
    LET fn == "upgrade_nixos" IN
    << RequireSudo(fn, c),
       Sudo(fn, <<"/run/current-system/sw/bin/nixos-rebuild", "switch", "--upgrade">>
                \o ExtraArgs(f, "cfg:nix_arguments")),
       Sudo(fn, <<"/run/current-system/sw/bin/nix-collect-garbage", "-d">>) >>

UpgradeNixos(c, f) ==
    LET fn == "upgrade_nixos" IN
    << RequireSudo(fn, c),
       Sudo(fn, <<"/run/current-system/sw/bin/nixos-rebuild", "switch", "--upgrade">>
                \o ExtraArgs(f, "cfg:nix_arguments")) >>
    \o If(c.cleanup,
          << Sudo(fn, <<"/run/current-system/sw/bin/nix-collect-garbage", "-d">>) >>)

\* the exit codes given to status_checked_with_codes for `pkcon update`
PkconUpdateCodes == {5}

UpgradeNeon(c, f) ==
    LET fn == "upgrade_neon" IN
    << RequireSudo(fn, c) >>
    \o (IF W("pkcon") \notin f THEN << Panic(fn) >>
        ELSE << Sudo(fn, <<"pkcon", "refresh">>),
                WithCodes(Sudo(fn, <<"pkcon", "update">> \o Yes(c, "-y")
                                   \o If(c.cleanup, <<"--autoremove">>)),
                          PkconUpdateCodes) >>)


\* a plausible slip: mist forgotten in the copy of the front-end choice
NeedrestartApt_NoMist(f) ==
    IF W("apt-fast") \in f THEN "apt-fast"
    ELSE IF "path:/usr/bin/nala" \in f THEN "/usr/bin/nala"
    ELSE "apt-get"

\* the apt front-end should_skip_needrestart works out for itself
NeedrestartApt(f) ==
    IF W("apt-fast") \in f THEN "apt-fast"
    ELSE IF W("mist") \in f THEN "mist"
    ELSE IF "path:/usr/bin/nala" \in f THEN "/usr/bin/nala"
    ELSE "apt-get"

\* a plausible slip: CentOS left out of the RedHat family
RedhatBased_FedoraOnly(dist) == dist = "Fedora"

RedhatBased(dist) == dist \in {"CentOS", "Fedora"}

\* should_skip_needrestart() on a host where detect() gives d: "run",
\* SkipStep, or the error of detect()
ShouldSkipNeedrestart(d, f) ==
    IF d \notin Distribution THEN d
    ELSE IF RedhatBased(d) THEN SkipStep
    ELSE IF d = "Debian" /\ NeedrestartApt(f) = "/usr/bin/nala" THEN SkipStep
    ELSE "run"

RunNeedrestart(c, f, d) ==
    LET fn == "run_needrestart"
        skip == ShouldSkipNeedrestart(d, f)
    IN  << RequireSudo(fn, c), RequireTool(fn, f, W("needrestart")),
           Require(fn, skip = "run", skip),
           Sudo(fn, <<"needrestart">>) >>

\* the exit codes given to status_checked_with_codes by run_fwupdmgr
FwupdmgrCodes == {2}

\* a plausible slip: the firmware tool run with plain status_checked
FwupdmgrStep_Plain(fn, args) == Exec(fn, <<"fwupdmgr">> \o args)

FwupdmgrStep(fn, args) == WithCodes(Exec(fn, <<"fwupdmgr">> \o args), FwupdmgrCodes)

RunFwupdmgr(c, f) ==
    LET fn == "run_fwupdmgr" IN
    << RequireTool(fn, f, W("fwupdmgr")),
       Require(fn, "wsl" \notin f, SkipStep),
       FwupdmgrStep(fn, <<"refresh">>),
       FwupdmgrStep(fn, IF "cfg:firmware_upgrade" \in f
                        THEN <<"update">> \o Yes(c, "-y")
                        ELSE <<"get-updates">>) >>

\* a plausible slip: both scopes updated first, then both cleaned
RunFlatpak_CleanupLast(c, f) ==
    LET fn == "run_flatpak"
        update(scope) == <<"flatpak", "update", scope>> \o Yes(c, "-y")
        unused(scope) == <<"flatpak", "uninstall", scope, "--unused">> \o Yes(c, "-y")
        elevated == "cfg:flatpak_use_sudo" \in f \/ "env:SSH_CLIENT" \in f
    IN  << RequireTool(fn, f, W("flatpak")), RequireSudo(fn, c),
           Exec(fn, update("--user")),
           IF elevated THEN Sudo(fn, update("--system")) ELSE Exec(fn, update("--system")) >>
        \o If(c.cleanup,
              << Exec(fn, unused("--user")),
                 IF elevated THEN Sudo(fn, unused("--system"))
                 ELSE Exec(fn, unused("--system")) >>)

RunFlatpak(c, f) ==
    LET fn == "run_flatpak"
        update(scope) == <<"flatpak", "update", scope>> \o Yes(c, "-y")
        unused(scope) == <<"flatpak", "uninstall", scope, "--unused">> \o Yes(c, "-y")
    IN  << RequireTool(fn, f, W("flatpak")), RequireSudo(fn, c),
           Exec(fn, update("--user")) >>
        \o If(c.cleanup, << Exec(fn, unused("--user")) >>)
        \o (IF "cfg:flatpak_use_sudo" \in f \/ "env:SSH_CLIENT" \in f
            THEN << Sudo(fn, update("--system")) >>
                 \o If(c.cleanup, << Sudo(fn, unused("--system")) >>)
            ELSE << Exec(fn, update("--system")) >>
                 \o If(c.cleanup, << Exec(fn, unused("--system")) >>))

\* a plausible slip: the snapd socket test left out
RunSnap_NoSocketTest(c, f) ==
    LET fn == "run_snap" IN
    << RequireSudo(fn, c), RequireTool(fn, f, W("snap")),
       Sudo(fn, <<"snap", "refresh">>) >>

RunSnap(c, f) ==
    LET fn == "run_snap" IN
    << RequireSudo(fn, c), RequireTool(fn, f, W("snap")),
       Require(fn, "path:/var/snapd.socket" \in f \/ "path:/run/snapd.socket" \in f,
               SkipStep),
       Sudo(fn, <<"snap", "refresh">>) >>

RunPiholeUpdate(c, f) ==
    LET fn == "run_pihole_update" IN
    << RequireSudo(fn, c), RequireTool(fn, f, W("pihole")),
       RequireTool(fn, f, "path:/opt/pihole/update.sh"),
       Sudo(fn, <<"pihole", "-up">>) >>

RunProtonupUpdate(c, f) ==
    LET fn == "run_protonup_update" IN
    << RequireTool(fn, f, W("protonup")), Exec(fn, <<"protonup">> \o Yes(c, "--yes")) >>

\* distrobox_containers() is None, Some(empty) or Some(non-empty)
RunDistroboxUpdate(c, f) ==
    LET fn == "run_distrobox_update"
        some == "cfg:distrobox_containers" \in f
        empty == "cfg:distrobox_containers:nonempty" \notin f
    IN  << RequireTool(fn, f, W("distrobox")),
           Build(fn, FALSE, <<"distrobox", "upgrade">>),
           Require(fn, ~(some /\ empty), SkipStep),
           Exec(fn, <<"distrobox", "upgrade">>
                    \o (IF some THEN <<"<cfg:distrobox_containers>">> ELSE <<"--all">>)
                    \o If("cfg:distrobox_root" \in f, <<"--root">>)) >>

RunDkpPacmanUpdate(c, f) ==
    LET fn == "run_dkp_pacman_update" IN
    << RequireSudo(fn, c), RequireTool(fn, f, W("dkp-pacman")),
       Sudo(fn, <<"dkp-pacman", "-Syu">>) >>
    \o If(c.cleanup, << Sudo(fn, <<"dkp-pacman", "-Scc">>) >>)

RunConfigUpdate(c, f) ==
    LET fn == "run_config_update" IN
    << RequireSudo(fn, c), Require(fn, ~c.yes, SkipStep) >>
    \o (IF W("etc-update") \in f
        THEN << Sudo(fn, <<"etc-update">>) >>
        ELSE IF W("pacdiff") \in f
        THEN If("env:DIFFPROG" \notin f, << RequireTool(fn, f, W("vim")) >>)
             \o << Sudo(fn, <<"pacdiff">>) >>
        ELSE <<>>)

RunLureUpdate(c, f) ==
    LET fn == "run_lure_update" IN
    << RequireTool(fn, f, W("lure")),
       Exec(fn, <<"lure">> \o (IF c.yes THEN <<"-i=false", "up">> ELSE <<"up">>)) >>

\* .lines().find(|line| line.contains("Session:")): the first such line, none: <<>>
RECURSIVE FindSession(_)
FindSession(lines) ==
    IF lines = <<>> THEN None
    ELSE IF StrContains(lines[1], L("Session:")) THEN Some(lines[1])
    ELSE FindSession(Tail(lines))

\* `waydroid status` goes through the executor, so a dry run sees no output
\* a plausible slip: the confirmation asked for when assume-yes is on
RunWaydroid_PromptOnYes(c, f, status) ==
    LET fn == "run_waydroid"
        stdout == IF c.dry THEN <<>> ELSE status
        session == FindSession(stdout)
    IN  << RequireSudo(fn, c), RequireTool(fn, f, W("waydroid")),
           CapturedUtf8(Exec(fn, <<"waydroid", "status">>)) >>
        \o (IF session = None THEN << Panic(fn) >>
            ELSE If(StrContains(Unwrap(session), L("RUNNING")) /\ c.yes, << Prompt(fn) >>)
                 \o << Sudo(fn, <<"waydroid", "upgrade">>) >>)

RunWaydroid(c, f, status) ==
    LET fn == "run_waydroid"
        stdout == IF c.dry THEN <<>> ELSE status
        session == FindSession(stdout)
    IN  << RequireSudo(fn, c), RequireTool(fn, f, W("waydroid")),
           CapturedUtf8(Exec(fn, <<"waydroid", "status">>)) >>
        \o (IF session = None THEN << Panic(fn) >>
            ELSE If(StrContains(Unwrap(session), L("RUNNING")) /\ ~c.yes, << Prompt(fn) >>)
                 \o << Sudo(fn, <<"waydroid", "upgrade">>) >>)

RunAutoCpufreq(c, f) ==
    LET fn == "run_auto_cpufreq" IN
    << RequireSudo(fn, c), RequireTool(fn, f, W("auto-cpufreq")),
       Sudo(fn, <<"auto-cpufreq", "--update">>) >>

RunCinnamonSpicesUpdater(c, f) ==
    LET fn == "run_cinnamon_spices_updater" IN
    << RequireTool(fn, f, W("cinnamon-spice-updater")),
       Exec(fn, <<"cinnamon-spice-updater", "--update-all">>) >>

\* archlinux::upgrade_arch_linux, of another module
UpgradeArchLinux(c, f) == << Call("archlinux::upgrade_arch_linux") >>

\* a plausible slip: an unknown stratum returned as an error
BedrockStratum_UnknownFails(c, f, distribution) ==
    CASE distribution = "arch" -> UpgradeArchLinux(c, f)
      [] distribution \in {"debian", "ubuntu", "linuxmint"} -> UpgradeDebian(c, f)
      [] distribution \in {"centos", "fedora"} -> UpgradeRedhat(c, f)
      [] distribution = "bedrock" -> UpgradeBedrockStrata(c, f)
      [] OTHER -> << Require("update_bedrock", FALSE, UnknownLinuxDistribution) >>

\* the body of the `for` loop of update_bedrock for one line of `brl list`
BedrockStratum(c, f, distribution) ==
    CASE distribution = "arch" -> UpgradeArchLinux(c, f)
      [] distribution \in {"debian", "ubuntu", "linuxmint"} -> UpgradeDebian(c, f)
      [] distribution \in {"centos", "fedora"} -> UpgradeRedhat(c, f)
      [] distribution = "bedrock" -> UpgradeBedrockStrata(c, f)
      [] OTHER -> <<>>

\* the steps of one iteration of the loop, marked with the number of lines
\* the loop has yet to finish, this one included
InIteration(steps, n) == [i \in 1..Len(steps) |-> [steps[i] EXCEPT !.left = n]]

RECURSIVE BedrockStrata(_, _, _)
BedrockStrata(c, f, lines) ==
    IF lines = <<>> THEN <<>>
    ELSE InIteration(BedrockStratum(c, f, lines[1]), Len(lines))
         \o BedrockStrata(c, f, Tail(lines))

\* `brl update` is built on the executor and never run; `brl list` is run
\* with Command::new, whatever the run type
UpdateBedrock(c, f, lines) ==
    LET fn == "update_bedrock" IN
    << RequireSudo(fn, c),
       Build(fn, TRUE, <<"brl", "update">>),
       SpawnCmd(fn, <<"brl", "list">>) >>
    \o BedrockStrata(c, f, lines)

\* Distribution::upgrade(self, ctx): one procedure per variant
Upgrade(self, c, f, lines) ==
    CASE self = "Alpine" -> UpgradeAlpineLinux(c, f)
      [] self = "Chimera" -> UpgradeChimeraLinux(c, f)
      [] self = "Wolfi" -> UpgradeWolfiLinux(c, f)
      [] self = "Arch" -> UpgradeArchLinux(c, f)
      [] self \in {"CentOS", "Fedora"} -> UpgradeRedhat(c, f)
      [] self = "FedoraImmutable" -> UpgradeFedoraImmutable(c, f)
      [] self = "ClearLinux" -> UpgradeClearlinux(c, f)
      [] self = "Debian" -> UpgradeDebian(c, f)
      [] self = "Gentoo" -> UpgradeGentoo(c, f)
      [] self = "Suse" -> UpgradeSuse(c, f)
      [] self = "SuseMicro" -> UpgradeSuseMicro(c, f)
      [] self = "OpenSuseTumbleweed" -> UpgradeOpensuseTumbleweed(c, f)
      [] self = "Vanilla" -> UpgradeVanilla(c, f)
      [] self = "Void" -> UpgradeVoid(c, f)
      [] self = "Solus" -> UpgradeSolus(c, f)
      [] self = "Exherbo" -> UpgradeExherbo(c, f)
      [] self = "NixOS" -> UpgradeNixos(c, f)
      [] self = "KDENeon" -> UpgradeNeon(c, f)
      [] self = "Bedrock" -> UpdateBedrock(c, f, lines)
      [] self = "OpenMandriva" -> UpgradeOpenmandriva(c, f)
      [] self = "PCLinuxOS" -> UpgradePclinuxos(c, f)
      [] self = "Nobara" -> UpgradeNobara(c, f)
      [] self = "NILRT" -> UpgradeNilrt(c, f)


(***************************************************************************)
(* The PowerShell step (powershell.rs)                                     *)
(***************************************************************************)
ExecutionPolicy == "ExecutionPolicy"   \* the eyre!(..) of execution_policy_args_if_needed

\* self.path / self.is_pwsh as Powershell::new() sets them
PsIsPwsh(f) == W("pwsh") \in f
PsPath(f) == IF PsIsPwsh(f) THEN "pwsh" ELSE "powershell"

\* build_command_internal(cmd): a std::process::Command
PsInternal(fn, f, cmd) == SpawnCmd(fn, <<PsPath(f), "-NoProfile", "-Command", cmd>>)

\* Powershell::new(), set_profile() included
PowershellNew(c, f) ==
    LET fn == "Powershell::new" IN
    IF "dumb" \in f \/ (W("pwsh") \notin f /\ W("powershell") \notin f)
    THEN <<>>
    ELSE << Lenient(PsInternal(fn, f, "Split-Path $PROFILE")) >>

\* execution_policy_args_if_needed(), compiled on Windows only
PsExecutionPolicy(fn, f) ==
    If("windows" \in f,
       << OnFailure(PsInternal(fn, f, "Get-ExecutionPolicy"), ExecutionPolicy),
          Require(fn, "policy:RemoteSigned+" \in f, ExecutionPolicy) >>)

\* a plausible slip: elevation asked for although no sudo is configured
PsBuildCommand_AlwaysSudo(fn, c, f, cmd, use_sudo) ==
    PsExecutionPolicy(fn, f)
    \o << IF use_sudo
          THEN Sudo(fn, <<PsPath(f), "-NoProfile", "-Command", cmd>>)
          ELSE Exec(fn, <<PsPath(f), "-NoProfile", "-Command", cmd>>) >>

\* build_command(ctx, cmd, use_sudo), followed by the caller's checked run
PsBuildCommand(fn, c, f, cmd, use_sudo) ==
    PsExecutionPolicy(fn, f)
    \o << IF use_sudo /\ c.sudo
          THEN Sudo(fn, <<PsPath(f), "-NoProfile", "-Command", cmd>>)
          ELSE Exec(fn, <<PsPath(f), "-NoProfile", "-Command", cmd>>) >>

PowershellUpdateModules(c, f) ==
    LET cmd == "Update-Module" \o (IF "cfg:verbose" \in f THEN " -Verbose" ELSE "")
                               \o (IF c.yes THEN " -Force" ELSE "")
    IN  PsBuildCommand("Powershell::update_modules", c, f, cmd, ~PsIsPwsh(f))

\* windows_update(); the debug_assert! runs has_module in debug builds only
PowershellWindowsUpdate(c, f) ==
    LET fn == "Powershell::windows_update" IN
    If("build:debug" \in f,
       << OnFailure(PsInternal(fn, f, "Get-Module -ListAvailable PSWindowsUpdate"), Panicked),
          Require(fn, "module:PSWindowsUpdate" \in f, Panicked) >>)
    \o PsBuildCommand(fn, c, f,
          "Import-Module PSWindowsUpdate; Install-WindowsUpdate -Verbose"
          \o (IF "cfg:accept_all_windows_updates" \in f THEN " -AcceptAll" ELSE "")
          \o (IF "cfg:auto_reboot:yes" \in f THEN " -AutoReboot"
              ELSE IF "cfg:auto_reboot:no" \in f THEN " -IgnoreReboot" ELSE ""),
          TRUE)

\* microsoft_store(): the run succeeds when the child does and prints "0"
PowershellMicrosoftStore(c, f) ==
    LET fn == "Powershell::microsoft_store"
        built == PsBuildCommand(fn, c, f, "UpdateScanMethod", TRUE)
    IN  [i \in 1..Len(built) |->
            IF built[i].kind = "exec" THEN CapturedUtf8(built[i]) ELSE built[i]]
        \o << Require(fn, c.dry \/ "store:ReturnValue0" \in f, ExecFailed) >>

(***************************************************************************)
(* Entry points, and the hosts and contexts they are run on                *)
(***************************************************************************)
\* the longest `brl list` output enumerated, in lines
MaxStrata == 2

Steps ==
    {"run_deb_get", "run_am", "run_appman", "run_pacdef", "run_pacstall",
     "run_packer_nu", "run_needrestart", "run_fwupdmgr", "run_flatpak",
     "run_snap", "run_pihole_update", "run_protonup_update",
     "run_distrobox_update", "run_dkp_pacman_update", "run_config_update",
     "run_lure_update", "run_waydroid", "run_auto_cpufreq",
     "run_cinnamon_spices_updater", "Powershell::new",
     "Powershell::update_modules", "Powershell::windows_update",
     "Powershell::microsoft_store"}

EntryPoints ==
    {[fn |-> "Distribution::upgrade", self |-> d] : d \in Distribution}
    \cup {[fn |-> s, self |-> "-"] : s \in Steps}

\* the steps entry point e goes through on context c and host f, where
\* `brl list` prints lines, `waydroid status` prints status and detect()
\* gives d
PlanOf(e, c, f, lines, status, d) ==
    CASE e.fn = "Distribution::upgrade" -> Upgrade(e.self, c, f, lines)
      [] e.fn = "run_deb_get" -> RunDebGet(c, f)
      [] e.fn = "run_am" -> RunAm(c, f)
      [] e.fn = "run_appman" -> RunAppman(c, f)
      [] e.fn = "run_pacdef" -> RunPacdef(c, f)
      [] e.fn = "run_pacstall" -> RunPacstall(c, f)
      [] e.fn = "run_packer_nu" -> RunPackerNu(c, f)
      [] e.fn = "run_needrestart" -> RunNeedrestart(c, f, d)
      [] e.fn = "run_fwupdmgr" -> RunFwupdmgr(c, f)
      [] e.fn = "run_flatpak" -> RunFlatpak(c, f)
      [] e.fn = "run_snap" -> RunSnap(c, f)
      [] e.fn = "run_pihole_update" -> RunPiholeUpdate(c, f)
      [] e.fn = "run_protonup_update" -> RunProtonupUpdate(c, f)
      [] e.fn = "run_distrobox_update" -> RunDistroboxUpdate(c, f)
      [] e.fn = "run_dkp_pacman_update" -> RunDkpPacmanUpdate(c, f)
      [] e.fn = "run_config_update" -> RunConfigUpdate(c, f)
      [] e.fn = "run_lure_update" -> RunLureUpdate(c, f)
      [] e.fn = "run_waydroid" -> RunWaydroid(c, f, status)
      [] e.fn = "run_auto_cpufreq" -> RunAutoCpufreq(c, f)
      [] e.fn = "run_cinnamon_spices_updater" -> RunCinnamonSpicesUpdater(c, f)
      [] e.fn = "Powershell::new" -> PowershellNew(c, f)
      [] e.fn = "Powershell::update_modules" -> PowershellUpdateModules(c, f)
      [] e.fn = "Powershell::windows_update" -> PowershellWindowsUpdate(c, f)
      [] e.fn = "Powershell::microsoft_store" -> PowershellMicrosoftStore(c, f)


(***************************************************************************)
(* Hosts the resolver is run on                                            *)
(***************************************************************************)
\* the longest ID_LIKE value enumerated, in tokens
MaxIdLikeTokens == 2

EmptySection == [ID |-> None, NAME |-> None, VARIANT |-> None, ID_LIKE |-> None]

\* ID values: every identifier of the table, then values the table lacks
TableIdInputs ==
    {L("alpine"), L("chimera"), L("wolfi"), L("centos"), L("rhel"), L("ol"),
     L("clear-linux-os"), L("fedora"), L("nilrt"), L("nobara"), L("void"),
     L("debian"), L("pureos"), L("Deepin"), L("linuxmint"), L("arch"),
     L("manjaro-arm"), L("garuda"), L("artix"), L("cachyos"), L("solus"),
     L("gentoo"), L("funtoo"), L("exherbo"), L("nixos"),
     <<"open", "suse", "-", "microos">>, L("neon"), L("openmandriva"),
     L("pclinuxos")}

OtherIdInputs ==
    {<<>>, L("ubuntu"), L("amzn"), L("deepin"), L("Fedora"),
     <<"open", "suse", "-", "leap">>, <<"open", "suse", "-", "tumbleweed">>}

Opt(S) == {None} \cup {Some(x) : x \in S}

NameInputs == Opt({<<"Vanilla", " ", "OS">>, L("Ubuntu")})

VariantInputs ==
    Opt({L("Silverblue"), L("Kinoite"), L("Sericea"), L("Onyx"),
         <<"IoT", " ", "Edition">>, <<"Sway", " ", "Atomic">>, L("CoreOS"),
         L("silverblue"), <<"Workstation", " ", "Edition">>})

FewVariantInputs == Opt({L("Silverblue"), <<"Workstation", " ", "Edition">>})

TokenInputs ==
    {L("debian"), L("ubuntu"), L("centos"), L("suse"), L("arch"),
     <<"arch", "linux">>, L("alpine"), L("fedora"), L("rhel"),
     <<"open", "suse">>, <<"debian", "ish">>}

RECURSIVE JoinTokens(_)
JoinTokens(ts) ==
    IF Len(ts) = 0 THEN <<>>
    ELSE IF Len(ts) = 1 THEN ts[1]
    ELSE ts[1] \o <<" ">> \o JoinTokens(Tail(ts))

\* every ID_LIKE value of at most MaxIdLikeTokens tokens, single-spaced, and
\* two values with irregular whitespace
IdLikeInputs ==
    Opt({JoinTokens(ts) : ts \in UNION {[1..k -> TokenInputs] : k \in 0..MaxIdLikeTokens}}
        \cup {<<" ", "suse", "\t", " ", "open", "suse", " ">>,
              <<"\t", "fedora", " ", " ", "centos">>})

FewIdLikeInputs ==
    Opt({L("debian"), <<"suse", " ", "open", "suse">>, L("arch"), L("alpine"),
         <<"centos", " ", "rhel", " ", "fedora">>, L("fedora")})

SectionInputs ==
    [ID : Opt(TableIdInputs \cup OtherIdInputs), NAME : NameInputs,
     VARIANT : VariantInputs, ID_LIKE : FewIdLikeInputs]
    \cup
    [ID : Opt(OtherIdInputs), NAME : NameInputs,
     VARIANT : FewVariantInputs, ID_LIKE : IdLikeInputs]

HostFiles ==
    {[file |-> "absent", section |-> EmptySection],
     [file |-> "unreadable", section |-> EmptySection]}
    \cup {[file |-> "present", section |-> s] : s \in SectionInputs}

\* no entry point is being run
Idle ==
    /\ proc = [fn |-> "idle", self |-> "-"]
    /\ ctx = [dry |-> FALSE, sudo |-> FALSE, yes |-> FALSE, cleanup |-> FALSE]
    /\ facts = {}
    /\ strata = <<>>
    /\ wstatus = <<>>
    /\ pc = 0
    /\ trace = <<>>
    /\ outcome = "none"

InitDetect ==
    /\ bedrock \in BOOLEAN
    /\ \E h \in HostFiles : osFile = h.file /\ section = h.section
    /\ detected = "pending"
    /\ probes = {}
    /\ Idle

\* one call of Distribution::detect()
DetectCall ==
    /\ detected = "pending"
    /\ LET d == Detect(bedrock, osFile, section)
       IN  detected' = d.result /\ probes' = d.probes
    /\ UNCHANGED <<bedrock, osFile, section>>
    /\ UNCHANGED pvars

NextDetect == DetectCall

SpecDetect == InitDetect /\ [][NextDetect]_vars

(***************************************************************************)
(* Running an entry point                                                  *)
(***************************************************************************)
\* the probes entry point e makes: which(..), path tests, config and
\* environment reads
FactsOf(e) ==
    CASE e.fn = "Distribution::upgrade" ->
           (CASE e.self \in {"Alpine", "Chimera", "Wolfi"} -> {W("apk")}
              [] e.self \in {"CentOS", "Fedora"} ->
                   {W("bootc"), "cfg:bootc", W("rpm-ostree"), "cfg:rpm_ostree", W("dnf"),
                    "cfg:redhat_distro_sync", "cfg:dnf_arguments"}
              [] e.self = "FedoraImmutable" -> {W("bootc"), "cfg:bootc", W("rpm-ostree")}
              [] e.self = "Debian" ->
                   {W("apt-fast"), W("mist"), "path:/usr/bin/nala", "cfg:apt_arguments"}
              [] e.self = "Gentoo" ->
                   {W("layman"), W("ego"), W("eix-update"), "cfg:emerge_sync_flags",
                    "cfg:emerge_update_flags"}
              [] e.self = "Suse" -> {"cfg:suse_dup"}
              [] e.self = "Vanilla" -> {W("apx")}
              [] e.self = "NixOS" -> {"cfg:nix_arguments"}
              [] e.self = "KDENeon" -> {W("pkcon")}
              [] e.self = "Bedrock" -> {"path:/usr/bin/nala", W("dnf")}
              [] e.self = "OpenMandriva" -> {W("dnf"), "cfg:dnf_arguments"}
              [] e.self = "PCLinuxOS" -> {W("apt-get"), "cfg:dnf_arguments"}
              [] e.self = "Nobara" -> {W("dnf")}
              [] e.self = "NILRT" -> {W("opkg")}
              [] OTHER -> {})
      [] e.fn = "run_deb_get" -> {W("deb-get")}
      [] e.fn = "run_am" -> {W("am")}
      [] e.fn = "run_appman" -> {W("appman")}
      [] e.fn = "run_pacdef" -> {W("pacdef"), "pacdef:version1"}
      [] e.fn = "run_pacstall" -> {W("pacstall")}
      [] e.fn = "run_packer_nu" -> {W("nu"), "path:~/.local/share/nushell/packer"}
      [] e.fn = "run_needrestart" ->
           {W("needrestart"), W("apt-fast"), W("mist"), "path:/usr/bin/nala"}
      [] e.fn = "run_fwupdmgr" -> {W("fwupdmgr"), "wsl", "cfg:firmware_upgrade"}
      [] e.fn = "run_flatpak" -> {W("flatpak"), "cfg:flatpak_use_sudo", "env:SSH_CLIENT"}
      [] e.fn = "run_snap" -> {W("snap"), "path:/var/snapd.socket", "path:/run/snapd.socket"}
      [] e.fn = "run_pihole_update" -> {W("pihole"), "path:/opt/pihole/update.sh"}
      [] e.fn = "run_protonup_update" -> {W("protonup")}
      [] e.fn = "run_distrobox_update" ->
           {W("distrobox"), "cfg:distrobox_containers",
            "cfg:distrobox_containers:nonempty", "cfg:distrobox_root"}
      [] e.fn = "run_dkp_pacman_update" -> {W("dkp-pacman")}
      [] e.fn = "run_config_update" ->
           {W("etc-update"), W("pacdiff"), "env:DIFFPROG", W("vim")}
      [] e.fn = "run_lure_update" -> {W("lure")}
      [] e.fn = "run_waydroid" -> {W("waydroid")}
      [] e.fn = "run_auto_cpufreq" -> {W("auto-cpufreq")}
      [] e.fn = "run_cinnamon_spices_updater" -> {W("cinnamon-spice-updater")}
      [] e.fn = "Powershell::new" -> {"dumb", W("pwsh"), W("powershell")}
      [] e.fn = "Powershell::update_modules" ->
           {W("pwsh"), "cfg:verbose", "windows", "policy:RemoteSigned+"}
      [] e.fn = "Powershell::windows_update" ->
           {W("pwsh"), "build:debug", "module:PSWindowsUpdate", "windows",
            "policy:RemoteSigned+", "cfg:accept_all_windows_updates",
            "cfg:auto_reboot:yes"}
      [] e.fn = "Powershell::microsoft_store" ->
           {W("pwsh"), "windows", "policy:RemoteSigned+", "store:ReturnValue0"}

\* lines `brl list` may print: the strata update_bedrock knows and one it
\* does not
StratumInputs == {"arch", "debian", "fedora", "bedrock", "gentoo"}

StrataInputs == UNION {[1..k -> StratumInputs] : k \in 0..MaxStrata}

\* outputs of `waydroid status`: a running session, a stopped session, a
\* stopped session beside a running container line, and no Session line
StatusInputs ==
    { << <<"Session:", "\t", "RUNNING">>, <<"Container:", "\t", "RUNNING">>,
         <<"Session user:", "\t", "w568w(1000)">> >>,
      << <<"Session:", "\t", "STOPPED">>, <<"Vendor type:", "\t", "MAINLINE">> >>,
      << <<"Vendor type:", "\t", "MAINLINE">>, <<"Session:", "\t", "STOPPED">>,
         <<"Container:", "\t", "RUNNING">> >>,
      << <<"Container:", "\t", "RUNNING">> >> }

\* hosts run_needrestart is run on: what detect() looks at
SampleHosts ==
    {[bedrock |-> b, file |-> "present",
      section |-> [EmptySection EXCEPT !.ID = Some(L(i))]] :
        b \in BOOLEAN, i \in {"debian", "fedora", "centos", "arch", "amzn"}}
    \cup {[bedrock |-> FALSE, file |-> "present",
           section |-> [EmptySection EXCEPT !.ID = Some(L("fedora")),
                                           !.VARIANT = Some(L("Silverblue"))]],
          [bedrock |-> FALSE, file |-> "present",
           section |-> [EmptySection EXCEPT !.ID = Some(L("ubuntu")),
                                           !.ID_LIKE = Some(L("debian"))]],
          [bedrock |-> FALSE, file |-> "absent", section |-> EmptySection]}

NoHost == [bedrock |-> FALSE, file |-> "absent", section |-> EmptySection]

\* an entry point is about to run: the context it is given and the host
Init ==
    /\ proc \in EntryPoints
    /\ ctx \in Contexts
    /\ facts \in SUBSET FactsOf(proc)
    /\ strata \in (IF proc.self = "Bedrock" THEN StrataInputs ELSE {<<>>})
    /\ wstatus \in (IF proc.fn = "run_waydroid" THEN StatusInputs ELSE {<<>>})
    /\ \E h \in (IF proc.fn = "run_needrestart" THEN SampleHosts ELSE {NoHost}) :
           bedrock = h.bedrock /\ osFile = h.file /\ section = h.section
    /\ detected = "pending"
    /\ probes = {}
    /\ pc = 1
    /\ trace = <<>>
    /\ outcome = "running"

\* exit codes a child process may end with
ExitCodes == {0, 1, 2, 5, 100}

Plan == PlanOf(proc, ctx, facts, strata, wstatus, Detect(bedrock, osFile, section).result)

AtStep(kind) == outcome = "running" /\ pc <= Len(Plan) /\ Plan[pc].kind = kind

Event(step, real, exit, ok) ==
    [kind |-> step.kind, fn |-> step.fn, sudo |-> step.sudo, argv |-> step.argv,
     codes |-> step.codes, capture |-> step.capture, real |-> real,
     exit |-> exit, ok |-> ok, at |-> pc, left |-> step.left]

\* whether a checked run that ended with `exit`, its output decoding or
\* not, is reported as a success
RunOk(step, exit, decoded) ==
    StatusOk(exit, step.codes) /\ (step.capture = "utf8" => decoded)

\* a plausible slip: the result of a step dropped instead of returned
Advance_KeepGoing(ok, err) == pc' = pc + 1 /\ outcome' = outcome

Advance(ok, err) ==
    IF ok THEN pc' = pc + 1 /\ outcome' = outcome
    ELSE pc' = pc /\ outcome' = err

\* require(..), require_option(..), PathExt::require, a SkipStep test
DoRequire ==
    /\ AtStep("require")
    /\ Advance(Plan[pc].ok, Plan[pc].err)
    /\ UNCHANGED <<proc, ctx, facts, strata, wstatus, trace>>
    /\ UNCHANGED rvars

\* a live child of the process: it ends with some exit code and, when its
\* output is decoded, with text that decodes or not
RunChild(step) ==
    \E exit \in ExitCodes, decoded \in BOOLEAN :
        /\ (step.capture # "utf8" => decoded)
        /\ trace' = Append(trace, Event(step, TRUE, exit, RunOk(step, exit, decoded)))
        /\ Advance(RunOk(step, exit, decoded) \/ step.lenient, step.err)

\* a checked run of an executor command: in a dry run the command is
\* printed, no child is made and the run reports success
DoExec ==
    /\ AtStep("exec")
    /\ IF ctx.dry
       THEN /\ trace' = Append(trace, Event(Plan[pc], FALSE, 0, TRUE))
            /\ Advance(TRUE, "")
       ELSE RunChild(Plan[pc])
    /\ UNCHANGED <<proc, ctx, facts, strata, wstatus>>
    /\ UNCHANGED rvars

\* a checked run of a std::process::Command
DoSpawn ==
    /\ AtStep("spawn")
    /\ RunChild(Plan[pc])
    /\ UNCHANGED <<proc, ctx, facts, strata, wstatus>>
    /\ UNCHANGED rvars

\* an executor command built and dropped
DoBuild ==
    /\ AtStep("build")
    /\ trace' = Append(trace, Event(Plan[pc], FALSE, 0, TRUE))
    /\ Advance(TRUE, "")
    /\ UNCHANGED <<proc, ctx, facts, strata, wstatus>>
    /\ UNCHANGED rvars

\* prompt_yesno: declined is a SkipStep
DoPrompt ==
    /\ AtStep("prompt")
    /\ \E answer \in BOOLEAN :
           /\ trace' = Append(trace, Event(Plan[pc], FALSE, 0, answer))
           /\ Advance(answer, SkipStep)
    /\ UNCHANGED <<proc, ctx, facts, strata, wstatus>>
    /\ UNCHANGED rvars

DoPanic ==
    /\ AtStep("panic")
    /\ outcome' = Panicked
    /\ UNCHANGED <<proc, ctx, facts, strata, wstatus, pc, trace>>
    /\ UNCHANGED rvars

\* a procedure of another module returns Ok or Err
DoCall ==
    /\ AtStep("call")
    /\ \E ok \in BOOLEAN :
           /\ trace' = Append(trace, Event(Plan[pc], FALSE, 0, ok))
           /\ Advance(ok, CalleeFailed)
    /\ UNCHANGED <<proc, ctx, facts, strata, wstatus>>
    /\ UNCHANGED rvars

\* the end of the procedure: Ok(())
Return ==
    /\ outcome = "running"
    /\ pc > Len(Plan)
    /\ outcome' = "Ok"
    /\ UNCHANGED <<proc, ctx, facts, strata, wstatus, pc, trace>>
    /\ UNCHANGED rvars

Next ==
    \/ DoRequire
    \/ DoExec
    \/ DoSpawn
    \/ DoBuild
    \/ DoPrompt
    \/ DoPanic
    \/ DoCall
    \/ Return

Spec == Init /\ [][Next]_vars

(***************************************************************************)
(* Properties of the resolver, checked under SpecDetect                    *)
(***************************************************************************)
\* detect() has returned after loading the file and calling parse_os_release
Parsed ==
    /\ detected # "pending"
    /\ ~bedrock
    /\ osFile = "present"
    /\ section # EmptySection

\* the static table as the specification gives it: identifier -> variant
\* (fedora apart, which also looks at VARIANT)
StaticTable ==
    {<<L("alpine"), "Alpine">>, <<L("chimera"), "Chimera">>, <<L("wolfi"), "Wolfi">>,
     <<L("centos"), "CentOS">>, <<L("rhel"), "CentOS">>, <<L("ol"), "CentOS">>,
     <<L("clear-linux-os"), "ClearLinux">>, <<L("nilrt"), "NILRT">>,
     <<L("nobara"), "Nobara">>, <<L("void"), "Void">>, <<L("debian"), "Debian">>,
     <<L("pureos"), "Debian">>, <<L("Deepin"), "Debian">>,
     <<L("linuxmint"), "Debian">>, <<L("arch"), "Arch">>,
     <<L("manjaro-arm"), "Arch">>, <<L("garuda"), "Arch">>, <<L("artix"), "Arch">>,
     <<L("cachyos"), "Arch">>, <<L("solus"), "Solus">>, <<L("gentoo"), "Gentoo">>,
     <<L("funtoo"), "Gentoo">>, <<L("exherbo"), "Exherbo">>, <<L("nixos"), "NixOS">>,
     <<<<"open", "suse", "-", "microos">>, "SuseMicro">>, <<L("neon"), "KDENeon">>,
     <<L("openmandriva"), "OpenMandriva">>, <<L("pclinuxos"), "PCLinuxOS">>}

AtomicSpins ==
    {L("Silverblue"), L("Kinoite"), L("Sericea"), L("Onyx"),
     <<"IoT", " ", "Edition">>, <<"Sway", " ", "Atomic">>, L("CoreOS")}

FedoraByVariant ==
    IF \E v \in AtomicSpins : section.VARIANT = Some(v)
    THEN "FedoraImmutable" ELSE "Fedora"

HasDirectId ==
    \/ section.ID = Some(L("fedora"))
    \/ \E e \in StaticTable : section.ID = Some(e[1])

NameHasVanilla ==
    \E n \in section.NAME : \E i \in 1..Len(n) : n[i] = "Vanilla"

\* tok is one of the whitespace-separated tokens of s: it occurs in s with
\* no whitespace inside and with whitespace or an end of s on either side
IsTokenOf(tok, s) ==
    \E i \in 1..Len(s) :
        /\ i + Len(tok) - 1 <= Len(s)
        /\ SubSeq(s, i, i + Len(tok) - 1) = tok
        /\ \A k \in 1..Len(tok) : tok[k] \notin {" ", "\t"}
        /\ (i = 1 \/ s[i - 1] \in {" ", "\t"})
        /\ (i + Len(tok) - 1 = Len(s) \/ s[i + Len(tok)] \in {" ", "\t"})

IdLikeHasToken(tok) == \E s \in section.ID_LIKE : IsTokenOf(tok, s)

\* the fallback list in its fixed order: the markers of each entry and the
\* variants of its family
FallbackList ==
    << [markers |-> {L("debian"), L("ubuntu")}, family |-> {"Debian"}],
       [markers |-> {L("centos")}, family |-> {"CentOS"}],
       [markers |-> {L("suse")}, family |-> {"Suse", "OpenSuseTumbleweed"}],
       [markers |-> {L("arch"), <<"arch", "linux">>}, family |-> {"Arch"}],
       [markers |-> {L("alpine")}, family |-> {"Alpine"}],
       [markers |-> {L("fedora")}, family |-> {"Fedora", "FedoraImmutable"}] >>

EntryMatches(k) == \E m \in FallbackList[k].markers : IdLikeHasToken(m)

\* entry k is the first entry of the fallback list with a token in ID_LIKE
FirstMatch(k) == EntryMatches(k) /\ \A j \in 1..(k - 1) : ~EntryMatches(j)

\* C1: a record whose ID is one of the identifiers of the static table
\* resolves to the variant the table maps it to (ID=fedora: to the Fedora
\* variant VARIANT selects), whatever ID_LIKE and NAME hold.
Thm_C1_DirectIdMatch ==
    Parsed =>
        /\ \A e \in StaticTable : section.ID = Some(e[1]) => detected = e[2]
        /\ section.ID = Some(L("fedora")) => detected = FedoraByVariant

Wit_C1_DirectIdMatch ==
    /\ Parsed
    /\ section.ID = Some(L("arch"))
    /\ section.NAME = Some(<<"Vanilla", " ", "OS">>)
    /\ section.ID_LIKE = Some(<<"centos", " ", "rhel", " ", "fedora">>)
    /\ detected = "Arch"

\* C2 as stated: a record with no direct ID match whose ID_LIKE holds a token
\* of the fallback list resolves to the family of the first matching entry.
Orig_C2_FallbackOrder ==
    (Parsed /\ ~HasDirectId) =>
        \A k \in 1..Len(FallbackList) :
            FirstMatch(k) => detected \in FallbackList[k].family

\* C2 amended: ... and whose NAME does not contain "Vanilla" resolves to the
\* family of the first matching entry of the fixed order, whatever the order
\* of the tokens inside ID_LIKE.
Thm_C2_FallbackOrder ==
    (Parsed /\ ~HasDirectId /\ ~NameHasVanilla) =>
        \A k \in 1..Len(FallbackList) :
            FirstMatch(k) => detected \in FallbackList[k].family

Wit_C2_FallbackOrder ==
    /\ Parsed
    /\ section.ID = Some(L("amzn"))
    /\ section.ID_LIKE = Some(<<"fedora", " ", "centos">>)
    /\ detected = "CentOS"

\* C3: a record that resolves to the Fedora family (ID=fedora, or fedora
\* reached through ID_LIKE) gives FedoraImmutable exactly when VARIANT is one
\* of the seven atomic spins, and ordinary Fedora otherwise.
Thm_C3_FedoraVariant ==
    (Parsed /\ (section.ID = Some(L("fedora"))
                \/ detected \in {"Fedora", "FedoraImmutable"}))
        => detected = FedoraByVariant

Wit_C3_FedoraVariant ==
    /\ Parsed
    /\ section.ID = Some(L("Fedora"))
    /\ section.ID_LIKE = Some(L("fedora"))
    /\ section.VARIANT = Some(L("Silverblue"))
    /\ detected = "FedoraImmutable"

IdHasTumbleweed ==
    \E s \in section.ID : \E i \in 1..Len(s) : s[i] = "tumbleweed"

\* C4 as stated: no direct ID match and suse the first matching fallback give
\* OpenSuseTumbleweed when ID contains "tumbleweed" and Suse otherwise.
Orig_C4_SuseVariant ==
    (Parsed /\ ~HasDirectId /\ FirstMatch(3)) =>
        detected = IF IdHasTumbleweed THEN "OpenSuseTumbleweed" ELSE "Suse"

\* C4 amended: the same for records whose NAME does not contain "Vanilla".
Thm_C4_SuseVariant ==
    (Parsed /\ ~HasDirectId /\ ~NameHasVanilla /\ FirstMatch(3)) =>
        detected = IF IdHasTumbleweed THEN "OpenSuseTumbleweed" ELSE "Suse"

Wit_C4_SuseVariant ==
    /\ Parsed
    /\ section.ID = Some(<<"open", "suse", "-", "tumbleweed">>)
    /\ section.ID_LIKE = Some(<<"suse", " ", "open", "suse">>)
    /\ detected = "OpenSuseTumbleweed"

\* C5: without the Bedrock marker, detect() returns EmptyOSReleaseFile when
\* the identification file does not exist or its general section is empty.
Thm_C5_EmptyOrAbsent ==
    (detected # "pending" /\ ~bedrock
     /\ (osFile = "absent" \/ (osFile = "present" /\ section = EmptySection)))
        => detected = "EmptyOSReleaseFile"

Wit_C5_EmptyOrAbsent ==
    /\ ~bedrock
    /\ osFile = "present"
    /\ section = EmptySection
    /\ detected = "EmptyOSReleaseFile"

\* C6: with the Bedrock marker present, detect() returns Bedrock and makes no
\* access to the identification file, whatever that file holds.
Thm_C6_BedrockShortCircuit ==
    (detected # "pending" /\ bedrock) =>
        /\ detected = "Bedrock"
        /\ \A pr \in probes : pr[2] # "/etc/os-release"

Wit_C6_BedrockShortCircuit ==
    /\ bedrock
    /\ osFile = "present"
    /\ section.ID = Some(L("debian"))
    /\ detected = "Bedrock"

\* C7: a non-empty record with no direct ID match, no NAME containing
\* "Vanilla" and no ID_LIKE token of the fallback list (ID_LIKE absent
\* included) fails with UnknownLinuxDistribution.
Thm_C7_UnknownIsError ==
    (Parsed /\ ~HasDirectId /\ ~NameHasVanilla
     /\ \A k \in 1..Len(FallbackList) : ~EntryMatches(k))
        => detected = "UnknownLinuxDistribution"

Wit_C7_UnknownIsError ==
    /\ Parsed
    /\ section.ID = Some(L("amzn"))
    /\ section.NAME = Some(L("Ubuntu"))
    /\ section.ID_LIKE = None
    /\ detected = "UnknownLinuxDistribution"

\* C8: a family is selected through ID_LIKE only by a token equal to one of
\* its markers (a token that merely contains the marker selects nothing), and
\* with a direct ID match the result is the one the record gives without its
\* ID_LIKE.
Thm_C8_TokenEquality ==
    Parsed =>
        /\ (~HasDirectId /\ ~NameHasVanilla /\ detected \in Distribution) =>
               \E k \in 1..Len(FallbackList) :
                   detected \in FallbackList[k].family /\ EntryMatches(k)
        /\ HasDirectId =>
               detected = ParseOsRelease([section EXCEPT !.ID_LIKE = None])

Wit_C8_TokenEquality ==
    /\ Parsed
    /\ section.ID = Some(L("ubuntu"))
    /\ section.NAME = None
    /\ section.ID_LIKE = Some(<<"debian", "ish", " ", "open", "suse">>)
    /\ detected = "UnknownLinuxDistribution"

(***************************************************************************)
(* Claims about command execution (checked under Spec)                     *)
(***************************************************************************)
\* the children that ran live and whose exit code alone decides the
\* report: checked runs of the executor that decode no output
ExitDecided(e) == e.kind = "exec" /\ e.real /\ e.capture # "utf8"

\* the extra exit codes the claim names, by call site
AcceptedAt(e) ==
    IF e.fn = "run_fwupdmgr" THEN {2}
    ELSE IF e.fn = "upgrade_neon" /\ Len(e.argv) >= 2 /\ e.argv[1] = "pkcon"
            /\ e.argv[2] = "update" THEN {5}
    ELSE IF e.fn = "upgrade_debian" /\ e.sudo /\ Len(e.argv) = 2
            /\ e.argv[2] = "update" THEN {100}
    ELSE {}

\* the procedure went on after the i-th invocation of the trace
WentOn(i) ==
    IF i < Len(trace) THEN trace[i + 1].at > trace[i].at ELSE pc > trace[i].at

\* the procedure stopped at the i-th invocation of the trace, with an
\* execution failure
AbortedAt(i) == i = Len(trace) /\ pc = trace[i].at /\ outcome = ExecFailed

\* C9: a live invocation is a success exactly when its exit code is 0 or
\* one its call site accepts (2 for both fwupdmgr invocations, 5 for
\* `pkcon update`, 100 for the elevated `apt update`), and then the
\* procedure goes on to its next step; with any other exit code the
\* invocation fails and the procedure stops there.
Thm_C9_AcceptedExitCodes ==
    \A i \in 1..Len(trace) :
        ExitDecided(trace[i]) =>
            IF trace[i].exit = 0 \/ trace[i].exit \in AcceptedAt(trace[i])
            THEN trace[i].ok /\ WentOn(i)
            ELSE ~trace[i].ok /\ AbortedAt(i)

\* `fwupdmgr refresh` ended with 2 and the second fwupdmgr invocation ran
\* and failed; `pkcon update` ending with 5 and `apt update` ending with
\* 100 are the other two cases
Wit_C9_AcceptedExitCodes ==
    \/ /\ proc.fn = "run_fwupdmgr"
       /\ Len(trace) = 2
       /\ trace[1].real /\ trace[1].exit = 2 /\ trace[1].ok
       /\ trace[2].real /\ trace[2].exit = 5 /\ outcome = ExecFailed
    \/ /\ proc.self = "KDENeon"
       /\ Len(trace) = 2
       /\ trace[2].real /\ trace[2].exit = 5 /\ outcome = "Ok"
       /\ trace[2].argv[2] = "update"
    \/ /\ proc.self = "Debian"
       /\ Len(trace) = 2
       /\ trace[1].real /\ trace[1].exit = 100 /\ trace[1].argv[2] = "update"
       /\ trace[1].sudo /\ trace[2].exit = 100 /\ outcome = ExecFailed

\* C10 as stated: in a dry run no entry point makes a real child and every
\* invocation reports success.
Orig_C10_DryRunSpawnsNothing ==
    ctx.dry =>
        \A i \in 1..Len(trace) :
            trace[i].kind \in {"exec", "spawn"} => ~trace[i].real /\ trace[i].ok

(***************************************************************************)
(* Claims about elevation, prompts and skips (checked under Spec)          *)
(***************************************************************************)
\* the executor invocations whose call site asks for elevation: those
\* built on execute(sudo), and those PowerShell builds with use_sudo = true
\* (windows_update, microsoft_store, and update_modules when the shell is
\* not pwsh)
ElevationAsked(e) ==
    \/ e.sudo
    \/ /\ e.kind = "exec"
       /\ \/ e.fn \in {"Powershell::windows_update", "Powershell::microsoft_store"}
          \/ e.fn = "Powershell::update_modules" /\ e.argv[1] = "powershell"

\* C11 as stated: an invocation that asks for elevation is issued only when
\* an elevation mechanism is configured; without one it is issued neither
\* elevated nor unelevated.
Orig_C11_ElevationOnlyIfConfigured ==
    \A i \in 1..Len(trace) :
        ElevationAsked(trace[i]) => ctx.sudo

\* the Session line of a live `waydroid status` reports RUNNING
SessionReportsRunning ==
    /\ ~ctx.dry
    /\ \E k \in 1..Len(wstatus) :
           wstatus[k][1] = "Session:" /\ wstatus[k][Len(wstatus[k])] = "RUNNING"

IsWaydroidUpgrade(s) == s.kind = "exec" /\ s.sudo /\ s.argv = <<"waydroid", "upgrade">>

\* C12: in run_waydroid, when the Session line reports RUNNING and
\* assume-yes is off, `waydroid upgrade` is issued only right after an
\* accepted prompt; a declined prompt ends the step with SkipStep and
\* nothing is issued after it; after an accepted prompt the next thing the
\* step does is the elevated `waydroid upgrade`.
Thm_C12_WaydroidPrompt ==
    (proc.fn = "run_waydroid" /\ SessionReportsRunning /\ ~ctx.yes) =>
        /\ \A i \in 1..Len(trace) :
               IsWaydroidUpgrade(trace[i]) =>
                   i > 1 /\ trace[i - 1].kind = "prompt" /\ trace[i - 1].ok
        /\ \A i \in 1..Len(trace) :
               trace[i].kind = "prompt" =>
                   IF trace[i].ok
                   THEN IF i < Len(trace)
                        THEN IsWaydroidUpgrade(trace[i + 1])
                        ELSE /\ outcome = "running"
                             /\ pc <= Len(Plan)
                             /\ IsWaydroidUpgrade(Plan[pc])
                   ELSE i = Len(trace) /\ outcome = SkipStep

\* the prompt was declined: the step is skipped and no upgrade was issued
Wit_C12_WaydroidPrompt ==
    /\ proc.fn = "run_waydroid" /\ SessionReportsRunning /\ ~ctx.yes
    /\ Len(trace) = 2
    /\ trace[2].kind = "prompt" /\ ~trace[2].ok
    /\ outcome = SkipStep

\* what detect() gives on the host
Resolved == Detect(bedrock, osFile, section).result

OnRedhatHost == proc.fn = "run_needrestart" /\ Resolved \in {"CentOS", "Fedora"}

UpgradeProcedure == proc.fn # "Powershell::new"

\* what the procedure ends with when step s fails
FailureOf(s) ==
    CASE s.kind = "prompt" -> SkipStep
      [] s.kind = "call" -> CalleeFailed
      [] s.kind = "panic" -> Panicked
      [] OTHER -> s.err

\* the steps taken so far were taken in order, each after the success of
\* the one before, and a failed one is the last and is what is returned
InOrder ==
    /\ \A i \in 1..Len(trace) :
           /\ trace[i].at <= pc
           /\ i < Len(trace) => trace[i].ok /\ trace[i].at < trace[i + 1].at
           /\ ~trace[i].ok =>
                  /\ i = Len(trace)
                  /\ pc = trace[i].at
                  /\ outcome = FailureOf(Plan[pc])
    /\ outcome \in {"running", "Ok"} =>
           \A i \in 1..Len(trace) : trace[i].ok /\ trace[i].at < pc
    /\ outcome = "Ok" => pc = Len(Plan) + 1

\* C14: in every upgrade procedure a step is taken only while every step
\* before it succeeded; after a failure no step is taken (the failed one
\* included) and the failure is what the procedure returns.
Thm_C14_AbortAtFirstFailure ==
    /\ [](UpgradeProcedure => InOrder)
    /\ [][UpgradeProcedure =>
             /\ outcome = "running"
             /\ pc' >= pc
             /\ outcome' \notin {"running", "Ok"} => pc' = pc /\ outcome' = FailureOf(Plan[pc])]_vars

\* upgrade_debian with cleanup on: the upgrade invocation failed and the
\* clean and autoremove invocations were never issued
Wit_C14_AbortAtFirstFailure ==
    /\ proc.self = "Debian" /\ ctx.cleanup
    /\ Len(trace) = 2
    /\ trace[1].ok /\ ~trace[2].ok
    /\ Len(Plan) = pc + 2
    /\ outcome = ExecFailed

(***************************************************************************)
(* Claims about missing tools (checked under Spec)                         *)
(***************************************************************************)
\* the tool each of the cited procedures looks up on PATH
NeededTool ==
    CASE proc.self \in {"Alpine", "Chimera", "Wolfi"} -> "apk"
      [] proc.self = "OpenMandriva" -> "dnf"
      [] proc.self = "PCLinuxOS" -> "apt-get"
      [] proc.self = "KDENeon" -> "pkcon"
      [] proc.self = "Vanilla" -> "apx"
      [] proc.self = "NILRT" -> "opkg"
      [] proc.self = "Nobara" -> "dnf"
      [] OTHER -> "-"

\* C15 as stated: when the tool a procedure needs is not installed, the
\* procedure issues nothing and ends with a capability-missing error; it
\* does not crash.
Orig_C15_MissingToolIsAnError ==
    (NeededTool # "-" /\ W(NeededTool) \notin facts) =>
        /\ trace = <<>>
        /\ outcome \in {"running", MissingTool, SudoRequired}

(***************************************************************************)
(* Claims about the choice of tool (checked under Spec)                    *)
(***************************************************************************)
OnDebian == proc = [fn |-> "Distribution::upgrade", self |-> "Debian"]

\* the front-ends in priority order, each with whether the host has it
FrontEnds ==
    << [name |-> "apt-fast", here |-> W("apt-fast") \in facts],
       [name |-> "mist", here |-> W("mist") \in facts],
       [name |-> "/usr/bin/nala", here |-> "path:/usr/bin/nala" \in facts],
       [name |-> "apt-get", here |-> TRUE] >>

\* the first front-end of the list the host has
FirstAvailable ==
    LET k == CHOOSE k \in 1..Len(FrontEnds) :
                 FrontEnds[k].here /\ \A j \in 1..(k - 1) : ~FrontEnds[j].here
    IN  FrontEnds[k].name

\* s is the start of t
IsPrefix(s, t) == Len(s) <= Len(t) /\ \A i \in 1..Len(s) : s[i] = t[i]

\* the subcommands issued so far, in order
Subcommands == [i \in 1..Len(trace) |-> trace[i].argv[2]]

\* C16: upgrade_debian uses one front-end, the first available of
\* apt-fast, mist, /usr/bin/nala, apt-get.  With mist it runs `update`
\* then `upgrade` unelevated, needs no elevation mechanism and never runs
\* clean or autoremove; with nala it runs no `update` and upgrades with
\* `upgrade`; with apt-fast or apt-get it runs elevated `update` then
\* `dist-upgrade`.
Thm_C16_DebianFrontEnd ==
    OnDebian =>
        /\ \A i \in 1..Len(trace) : trace[i].argv[1] = FirstAvailable
        /\ CASE FirstAvailable = "mist" ->
                  /\ IsPrefix(Subcommands, <<"update", "upgrade">>)
                  /\ \A i \in 1..Len(trace) : ~trace[i].sudo
                  /\ outcome # SudoRequired
                  /\ outcome = "Ok" => Len(trace) = 2
             [] FirstAvailable = "/usr/bin/nala" ->
                  /\ \A i \in 1..Len(trace) :
                         trace[i].sudo /\ trace[i].argv[2] \notin {"update", "dist-upgrade"}
                  /\ Len(trace) >= 1 => trace[1].argv[2] = "upgrade"
                  /\ outcome = "Ok" => Len(trace) >= 1
             [] OTHER ->
                  /\ \A i \in 1..Len(trace) : trace[i].sudo
                  /\ \/ IsPrefix(Subcommands, <<"update", "dist-upgrade">>)
                     \/ IsPrefix(<<"update", "dist-upgrade">>, Subcommands)
                  /\ outcome = "Ok" => Len(trace) >= 2

\* mist chosen over nala on a host without sudo and with cleanup on: both
\* invocations ran unelevated and the procedure ended
Wit_C16_DebianFrontEnd ==
    /\ OnDebian
    /\ W("apt-fast") \notin facts /\ W("mist") \in facts
    /\ "path:/usr/bin/nala" \in facts
    /\ ~ctx.sudo /\ ctx.cleanup
    /\ outcome = "Ok"
    /\ Subcommands = <<"update", "upgrade">>

OnRedhat == proc.fn = "Distribution::upgrade" /\ proc.self \in {"CentOS", "Fedora"}

\* a tool is used when it is installed and its policy flag is on
BootcOn == W("bootc") \in facts /\ "cfg:bootc" \in facts
OstreeOn == W("rpm-ostree") \in facts /\ "cfg:rpm_ostree" \in facts

\* C17: upgrade_redhat issues one upgrade invocation and no other:
\* elevated `bootc upgrade` when bootc is installed and enabled; else
\* unelevated `rpm-ostree upgrade` when rpm-ostree is installed and
\* enabled; else the elevated dnf (yum when dnf is not installed) with
\* `distro-sync` when that flag is on and `upgrade` otherwise.
Thm_C17_RedhatPrecedence ==
    OnRedhat =>
        /\ Len(trace) <= 1
        /\ outcome = "Ok" => Len(trace) = 1
        /\ \A i \in 1..Len(trace) :
               LET e == trace[i] IN
               /\ e.kind = "exec"
               /\ IF BootcOn THEN e.sudo /\ e.argv = <<"bootc", "upgrade">>
                  ELSE IF OstreeOn THEN ~e.sudo /\ e.argv = <<"rpm-ostree", "upgrade">>
                  ELSE /\ e.sudo
                       /\ e.argv[1] = (IF W("dnf") \in facts THEN "dnf" ELSE "yum")
                       /\ e.argv[2] = (IF "cfg:redhat_distro_sync" \in facts
                                       THEN "distro-sync" ELSE "upgrade")

\* both alternate tools installed and enabled: bootc was the one invoked
Wit_C17_RedhatPrecedence ==
    /\ OnRedhat /\ BootcOn /\ OstreeOn
    /\ outcome = "Ok"
    /\ Len(trace) = 1 /\ trace[1].sudo /\ trace[1].argv = <<"bootc", "upgrade">>

(***************************************************************************)
(* Claims about cleanup (checked under Spec)                               *)
(***************************************************************************)
\* the words that make an invocation a cleanup, or give it a cleanup
\* argument: apt clean/autoremove, deb-get clean, cave purge,
\* nix-collect-garbage, pkcon --autoremove, flatpak uninstall --unused,
\* dkp-pacman -Scc
CleanupWords ==
    {"clean", "autoremove", "purge", "--autoremove", "--unused", "-Scc",
     "/run/current-system/sw/bin/nix-collect-garbage"}

HasCleanup(e) ==
    e.kind = "exec" /\ \E k \in 1..Len(e.argv) : e.argv[k] \in CleanupWords

\* C18: with the cleanup flag off no procedure issues a cleanup invocation
\* or a cleanup argument.
Thm_C18_NoCleanupByDefault ==
    ~ctx.cleanup => \A i \in 1..Len(trace) : ~HasCleanup(trace[i])

\* upgrade_nixos ran to its end with cleanup off: the rebuild only
Wit_C18_NoCleanupByDefault ==
    /\ proc.self = "NixOS" /\ ~ctx.cleanup
    /\ outcome = "Ok"
    /\ Len(trace) = 1
    /\ trace[1].argv[1] = "/run/current-system/sw/bin/nixos-rebuild"

\* the words that make an invocation a refresh or an upgrade
UpgradeWords ==
    {"update", "upgrade", "dist-upgrade", "refresh", "-Syu", "switch", "sync",
     "resolve"}

RefreshOrUpgrade(e) ==
    e.kind = "exec" /\ \E k \in 1..Len(e.argv) : e.argv[k] \in UpgradeWords

\* the procedures whose cleanup comes last
TrailingCleanup ==
    {"upgrade_debian", "upgrade_nixos", "run_deb_get", "run_dkp_pacman_update"}

NotBedrock == proc.self # "Bedrock"

\* C19 as stated: a cleanup is an invocation of its own, and no refresh or
\* upgrade invocation follows it.
Orig_C19_CleanupTrails ==
    NotBedrock =>
        \A i \in 1..Len(trace) :
            HasCleanup(trace[i]) =>
                /\ ~RefreshOrUpgrade(trace[i])
                /\ \A j \in (i + 1)..Len(trace) : ~RefreshOrUpgrade(trace[j])

\* C19, amended: in upgrade_debian, upgrade_nixos, run_deb_get and
\* run_dkp_pacman_update every cleanup is an invocation of its own that
\* follows the refresh and upgrade invocations, and only cleanups follow
\* it; in upgrade_exherbo `cave purge` is an invocation of its own after
\* sync and resolve and is followed by fix-linkage and eclectic; in
\* run_flatpak each scope is cleaned right after it is updated, the user
\* scope before the system scope is updated; in upgrade_neon the cleanup
\* is an argument of the last invocation, `pkcon update`.
Thm_C19_CleanupTrails ==
    NotBedrock =>
        \A i \in 1..Len(trace) :
            HasCleanup(trace[i]) =>
                /\ ctx.cleanup
                /\ i > 1
                /\ CASE trace[i].fn \in TrailingCleanup ->
                          /\ ~RefreshOrUpgrade(trace[i])
                          /\ \A j \in 1..(i - 1) :
                                 RefreshOrUpgrade(trace[j]) \/ HasCleanup(trace[j])
                          /\ \A j \in (i + 1)..Len(trace) :
                                 HasCleanup(trace[j]) /\ ~RefreshOrUpgrade(trace[j])
                     [] trace[i].fn = "upgrade_exherbo" ->
                          /\ ~RefreshOrUpgrade(trace[i])
                          /\ \A j \in 1..(i - 1) : RefreshOrUpgrade(trace[j])
                          /\ \A j \in (i + 1)..Len(trace) :
                                 ~HasCleanup(trace[j]) /\ ~RefreshOrUpgrade(trace[j])
                          /\ outcome = "Ok" => Len(trace) = i + 2
                     [] trace[i].fn = "run_flatpak" ->
                          /\ ~RefreshOrUpgrade(trace[i])
                          /\ trace[i - 1].argv[2] = "update"
                          /\ trace[i - 1].argv[3] = trace[i].argv[3]
                          /\ trace[i].argv[3] = "--user" /\ i < Len(trace) =>
                                 trace[i + 1].argv[2] = "update"
                     [] trace[i].fn = "upgrade_neon" ->
                          /\ trace[i].argv[2] = "update"
                          /\ i = Len(trace)
                     [] OTHER -> FALSE

\* run_flatpak with cleanup on ran to its end: the system scope was
\* updated after the user scope was cleaned
Wit_C19_CleanupTrails ==
    /\ proc.fn = "run_flatpak" /\ ctx.cleanup
    /\ outcome = "Ok"
    /\ Len(trace) = 4
    /\ HasCleanup(trace[2]) /\ RefreshOrUpgrade(trace[3]) /\ HasCleanup(trace[4])

(***************************************************************************)
(* Claims about the Bedrock procedure (checked under Spec)                 *)
(***************************************************************************)
OnBedrock == proc = [fn |-> "Distribution::upgrade", self |-> "Bedrock"]

\* the member procedure of a stratum, "-" for an unrecognized one
MemberOf(stratum) ==
    CASE stratum = "arch" -> "archlinux::upgrade_arch_linux"
      [] stratum \in {"debian", "ubuntu", "linuxmint"} -> "upgrade_debian"
      [] stratum \in {"centos", "fedora"} -> "upgrade_redhat"
      [] stratum = "bedrock" -> "upgrade_bedrock_strata"
      [] OTHER -> "-"

\* the line of `brl list` a step belongs to, 0 for the steps before the loop
LineOf(s) == IF s.left = 0 THEN 0 ELSE Len(strata) - s.left + 1

\* the lines for which something was issued
LinesServed == {LineOf(trace[i]) : i \in 1..Len(trace)} \ {0}

\* C20: update_bedrock goes through the lines of `brl list` in order and
\* runs for each the member procedure of its name; a line with an unknown
\* name issues nothing and fails nothing, and the lines after it are still
\* served; a member procedure that fails ends the run, the lines after it
\* unserved.
Thm_C20_BedrockStrata ==
    OnBedrock =>
        /\ \A i \in 1..Len(trace) :
               LineOf(trace[i]) # 0 =>
                   /\ trace[i].fn = MemberOf(strata[LineOf(trace[i])])
                   /\ \A j \in 1..(i - 1) : LineOf(trace[j]) <= LineOf(trace[i])
                   /\ \A m \in 1..(LineOf(trace[i]) - 1) :
                          MemberOf(strata[m]) # "-" => m \in LinesServed
        /\ outcome = "Ok" =>
               \A m \in 1..Len(strata) : MemberOf(strata[m]) # "-" => m \in LinesServed
        /\ outcome \notin {"running", "Ok"} =>
               /\ \A i \in 1..Len(trace) : LineOf(trace[i]) <= LineOf(Plan[pc])
               /\ LineOf(Plan[pc]) # 0 =>
                      /\ MemberOf(strata[LineOf(Plan[pc])]) # "-"
                      /\ Plan[pc].fn = MemberOf(strata[LineOf(Plan[pc])])

\* `brl list` printed an unknown stratum and then debian: the run ended
\* well and upgrade_debian was run for the second line
Wit_C20_BedrockStrata ==
    /\ OnBedrock
    /\ Len(strata) = 2 /\ MemberOf(strata[1]) = "-" /\ strata[2] = "debian"
    /\ outcome = "Ok"
    /\ LinesServed = {2}

(***************************************************************************)
(* Claims about skipped steps (checked under Spec)                         *)
(***************************************************************************)
\* the four short-circuits: fwupdmgr inside WSL, snap without a snapd
\* socket, config update under assume-yes, distrobox with an empty
\* container list
ShortCircuit ==
    \/ proc.fn = "run_fwupdmgr" /\ "wsl" \in facts
    \/ /\ proc.fn = "run_snap"
       /\ "path:/var/snapd.socket" \notin facts
       /\ "path:/run/snapd.socket" \notin facts
    \/ proc.fn = "run_config_update" /\ ctx.yes
    \/ /\ proc.fn = "run_distrobox_update"
       /\ "cfg:distrobox_containers" \in facts
       /\ "cfg:distrobox_containers:nonempty" \notin facts

\* the tool and the elevation mechanism the step asks for before it comes
\* to its short-circuit are there
ProbesPass ==
    CASE proc.fn = "run_fwupdmgr" -> W("fwupdmgr") \in facts
      [] proc.fn = "run_snap" -> ctx.sudo /\ W("snap") \in facts
      [] proc.fn = "run_config_update" -> ctx.sudo
      [] proc.fn = "run_distrobox_update" -> W("distrobox") \in facts
      [] OTHER -> FALSE

\* C21: a step that comes to one of its short-circuits ends with SkipStep,
\* which is neither success nor an execution failure, and its tool is
\* never invoked; a step that lacks its tool or sudo ends before that with
\* the capability-missing error, its tool not invoked either.
Thm_C21_SkipOutcomes ==
    ShortCircuit =>
        /\ \A i \in 1..Len(trace) : trace[i].kind \notin {"exec", "spawn"}
        /\ outcome \in {"running", SkipStep, MissingTool, SudoRequired}
        /\ ProbesPass => outcome \in {"running", SkipStep}
        /\ outcome = SkipStep => ProbesPass

\* run_snap on a host with sudo and snap but no snapd socket was skipped
Wit_C21_SkipOutcomes ==
    /\ proc.fn = "run_snap" /\ ShortCircuit /\ ProbesPass
    /\ outcome = SkipStep
    /\ trace = <<>>

OnDebianHost == proc.fn = "run_needrestart" /\ Resolved = "Debian"

NeedrestartInvoked ==
    \E i \in 1..Len(trace) : trace[i].kind = "exec" /\ trace[i].argv = <<"needrestart">>

\* C22: on a Debian host the front-end should_skip_needrestart works out
\* is the one upgrade_debian would use, whichever of apt-fast, mist and
\* /usr/bin/nala are there; run_needrestart is skipped exactly when that
\* front-end is nala, and with any other one a step that has sudo and
\* needrestart invokes needrestart.
Thm_C22_NeedrestartFrontEnd ==
    OnDebianHost =>
        /\ NeedrestartApt(facts) = DebianApt(facts)
        /\ outcome = SkipStep => DebianApt(facts) = "/usr/bin/nala"
        /\ DebianApt(facts) = "/usr/bin/nala" =>
               ~NeedrestartInvoked /\ outcome # "Ok"
        /\ (DebianApt(facts) # "/usr/bin/nala" /\ ctx.sudo /\ W("needrestart") \in facts) =>
               /\ outcome \in {"running", "Ok", ExecFailed}
               /\ outcome # "running" => NeedrestartInvoked

\* mist and nala both there, apt-fast not: both choices are mist and
\* needrestart was run
Wit_C22_NeedrestartFrontEnd ==
    /\ OnDebianHost
    /\ W("apt-fast") \notin facts /\ W("mist") \in facts
    /\ "path:/usr/bin/nala" \in facts
    /\ NeedrestartInvoked /\ outcome = "Ok"

(***************************************************************************)
(* Claims about single procedures (checked under Spec)                     *)
(***************************************************************************)
OnVanilla == proc = [fn |-> "Distribution::upgrade", self |-> "Vanilla"]

\* C23 as stated: upgrade_vanilla issues `apx update --all` and then, if
\* that succeeded, `apx upgrade --all`, each with `-y` under assume-yes,
\* and nothing else.
Orig_C23_VanillaTwoInvocations ==
    OnVanilla =>
        /\ Len(trace) <= 2
        /\ Len(trace) >= 1 =>
               trace[1].argv = <<"apx", "update", "--all">> \o (IF ctx.yes THEN <<"-y">> ELSE <<>>)
        /\ Len(trace) >= 2 =>
               /\ trace[1].ok
               /\ trace[2].argv =
                      <<"apx", "upgrade", "--all">> \o (IF ctx.yes THEN <<"-y">> ELSE <<>>)
        /\ outcome = "Ok" => Len(trace) = 2

\* C24 as stated: update_bedrock runs the elevated `brl update` it builds,
\* and `brl list` is run only after that invocation succeeded.
Orig_C24_BrlUpdateRuns ==
    OnBedrock =>
        \A i \in 1..Len(trace) :
            trace[i].argv = <<"brl", "list">> =>
                \E j \in 1..(i - 1) :
                    /\ trace[j].kind = "exec" /\ trace[j].sudo
                    /\ trace[j].fn = "update_bedrock"
                    /\ trace[j].argv = <<"brl", "update">>
                    /\ trace[j].ok

OnWaydroid == proc.fn = "run_waydroid"

IsStatusProbe(e) == e.kind = "exec" /\ ~e.sudo /\ e.argv = <<"waydroid", "status">>

Prompts == {i \in 1..Len(trace) : trace[i].kind = "prompt"}

\* C25 as stated: run_waydroid prompts at most once, and only when the
\* Session line of the status probe holds RUNNING and assume-yes is off;
\* when the session is not running or assume-yes is on, a step whose
\* status probe succeeded goes on to the elevated `waydroid upgrade`
\* without a prompt; the status probe comes before the prompt and the
\* upgrade, and is not run when no elevation mechanism is configured.
Orig_C25_WaydroidPromptOnce ==
    OnWaydroid =>
        /\ Cardinality(Prompts) <= 1
        /\ Prompts # {} => SessionReportsRunning /\ ~ctx.yes
        /\ \A i \in 1..Len(trace) :
               (trace[i].kind = "prompt" \/ IsWaydroidUpgrade(trace[i])) =>
                   i > 1 /\ IsStatusProbe(trace[1]) /\ trace[1].ok
        /\ ~ctx.sudo => trace = <<>>
        /\ (Len(trace) >= 1 /\ trace[1].ok /\ (~SessionReportsRunning \/ ctx.yes)) =>
               /\ Prompts = {}
               /\ outcome \in {"running", "Ok", ExecFailed}
               /\ outcome # "running" => IsWaydroidUpgrade(trace[Len(trace)])

====
